---- MODULE Spec2Model ----
(***************************************************************************)
(* A model of shenfun's sparse matrix algebra layer (shenfun/matrixbase.py)*)
(*                                                                         *)
(* Numbers.  Python/numpy floats are modelled as exact rationals <<n, d>>  *)
(* (d > 0, lowest terms).  A tolerance test abs(x) < 1e-k is evaluated     *)
(* exactly on the rational.  Rounding of the floating point operations is  *)
(* not modelled.                                                           *)
(*                                                                         *)
(* Diagonals.  A stored diagonal is a record [nd, v, id]: nd is numpy's    *)
(* ndim (0 for a Python number, 1 for an array), v the sequence of values  *)
(* (one value for a number), id the identity of the array object (Scalar   *)
(* numbers are immutable and have no identity of interest: id <<0, 0>>).   *)
(*                                                                         *)
(* Matrices.  A SparseMatrix is a record [cls, shape, scale, d, basis]: d  *)
(* is the _storage dict (a function from the stored offsets), basis the    *)
(* (test, trial) descriptor of a SpectralMatrix.                           *)
(***************************************************************************)
EXTENDS Integers, Sequences, FiniteSets, TLC

VARIABLES
    mat,      \* register name -> the matrix object the name is bound to
    nextId,   \* allocation counter of array objects
    nops,     \* number of algebra operations applied so far
    last,     \* the last operation: what was called and what it returned
    ref,      \* register name -> the dense matrix the same operations give
    prov,     \* how the object in register R was computed from A and B
    mv,       \* matvec harness: matrix, input vector, output array
    sol,      \* solver harness: matrix and the last query on it
    tpm       \* tensor-product harness: the TPMatrix terms and arrays

algVars == <<mat, nextId, nops, last, ref, prov>>
vars == <<mat, nextId, nops, last, ref, prov, mv, sol, tpm>>

(***************************************************************************)
(* Bounds of the model                                                     *)
(***************************************************************************)
MaxOps == 2

(***************************************************************************)
(* Rational arithmetic (the arithmetic of Python numbers and numpy arrays) *)
(***************************************************************************)
Abs(x) == IF x < 0 THEN -x ELSE x

RECURSIVE Gcd(_, _)
Gcd(a, b) == IF b = 0 THEN a ELSE Gcd(b, a % b)

Rat(n, d) ==
    LET g == Gcd(Abs(n), Abs(d))
        s == IF d < 0 THEN -1 ELSE 1
    IN  <<(s * n) \div g, (s * d) \div g>>

Zero == <<0, 1>>
One == <<1, 1>>
RAdd(x, y) == Rat(x[1] * y[2] + y[1] * x[2], x[2] * y[2])
RNeg(x) == <<-x[1], x[2]>>
RSub(x, y) == RAdd(x, RNeg(y))
RMul(x, y) == Rat(x[1] * y[1], x[2] * y[2])
RDiv(x, y) == Rat(x[1] * y[2], x[2] * y[1])

RECURSIVE Pow10(_)
Pow10(e) == IF e = 0 THEN 1 ELSE 10 * Pow10(e - 1)

\* abs(x) < 10^-e.  A nonzero rational whose denominator fits the integers
\* of the checker (below 10^10) is never below 10^-e for e >= 10.
AbsLtTol(x, e) ==
    \/ x[1] = 0
    \/ e <= 9 /\ Abs(x[1]) <= (x[2] - 1) \div Pow10(e)

\* abs(x) > 10^-e
AbsGtTol(x, e) ==
    /\ x[1] # 0
    /\ ~(e <= 9 /\ Abs(x[1]) <= x[2] \div Pow10(e))

\* Tolerances of the source, as exponents of ten
TolEq == 8
TolDiv == 8
TolAdd == 15
TolIadd == 16
TolScale == 8
TolSym == 8
TolClean == 8

(***************************************************************************)
(* numpy values: numbers and one-dimensional arrays                        *)
(***************************************************************************)
NoId == <<0, 0>>
Num(x) == [nd |-> 0, v |-> <<x>>, id |-> NoId]
Arr(s, i) == [nd |-> 1, v |-> s, id |-> i]
NpError == [nd |-> -1, v |-> << >>, id |-> NoId]

\* The value object x keeps, but as the object `i` when it is an array
WithId(x, i) == IF x.nd = 1 THEN [x EXCEPT !.id = i] ELSE x

\* Shapes that broadcast against each other
Broadcasts(x, y) ==
    \/ x.nd = 0
    \/ y.nd = 0
    \/ Len(x.v) = Len(y.v)
    \/ Len(x.v) = 1
    \/ Len(y.v) = 1

BLen(x, y) == IF Len(x.v) >= Len(y.v) THEN Len(x.v) ELSE Len(y.v)
BAt(x, j) == IF Len(x.v) = 1 THEN x.v[1] ELSE x.v[j]

\* x + y and x - y of numpy, the result a new object `i`
NpAdd(x, y, i) ==
    IF ~Broadcasts(x, y) THEN NpError
    ELSE [nd |-> IF x.nd = 1 \/ y.nd = 1 THEN 1 ELSE 0,
          v  |-> [j \in 1..BLen(x, y) |-> RAdd(BAt(x, j), BAt(y, j))],
          id |-> IF x.nd = 1 \/ y.nd = 1 THEN i ELSE NoId]

NpSub(x, y, i) ==
    IF ~Broadcasts(x, y) THEN NpError
    ELSE [nd |-> IF x.nd = 1 \/ y.nd = 1 THEN 1 ELSE 0,
          v  |-> [j \in 1..BLen(x, y) |-> RSub(BAt(x, j), BAt(y, j))],
          id |-> IF x.nd = 1 \/ y.nd = 1 THEN i ELSE NoId]

\* -x
NpNeg(x, i) == WithId([x EXCEPT !.v = [j \in 1..Len(x.v) |-> RNeg(x.v[j])]], i)

\* x * s for a number s
NpScale(x, s, i) ==
    WithId([x EXCEPT !.v = [j \in 1..Len(x.v) |-> RMul(x.v[j], s)]], i)

(***************************************************************************)
(* SparseMatrix objects                                                    *)
(***************************************************************************)
NoSolver == [cls |-> "None", id |-> 0]
NoDiags == "dia_matrix((1, 1))"
EmptyDict == [k \in {} |-> Num(Zero)]

\* SparseMatrix.__init__
SparseMatrix(d, shape, scale) ==
    [cls |-> "SparseMatrix", shape |-> shape, scale |-> scale, d |-> d,
     basis |-> "none", diags |-> NoDiags, solver |-> NoSolver]

\* SpectralMatrix.__init__ with an explicit diagonal map; the shape is
\* (test[0].dim(), trial[0].dim()) and `basis` stands for the pair
\* ((test class, derivative), (trial class, derivative)).
SpectralMatrix(d, basis, shape, scale) ==
    [cls |-> "SpectralMatrix", shape |-> shape, scale |-> scale, d |-> d,
     basis |-> basis, diags |-> NoDiags, solver |-> NoSolver]

\* Identity.__init__
Identity(shape, scale) ==
    [cls |-> "Identity", shape |-> shape, scale |-> scale,
     d |-> [k \in {0} |-> Num(One)],
     basis |-> "none", diags |-> NoDiags, solver |-> NoSolver]

\* No object: the value of a name that is not bound
NoMat ==
    [cls |-> "None", shape |-> <<0, 0>>, scale |-> Zero, d |-> EmptyDict,
     basis |-> "none", diags |-> NoDiags, solver |-> NoSolver]

Min(a, b) == IF a <= b THEN a ELSE b

\* Length of diagonal k of an N x M matrix (the slices of matvec)
DiagLen(k, N, M) == IF k < 0 THEN Min(M, N + k) ELSE Min(N, M - k)

\* The diagonals fit the shape: every stored offset lies in the matrix and
\* every stored array has the length of its diagonal.
WellFormed(m) ==
    \A k \in DOMAIN m.d :
        /\ -m.shape[1] < k
        /\ k < m.shape[2]
        /\ m.d[k].nd \in {0, 1}
        /\ m.d[k].nd = 1 => Len(m.d[k].v) = DiagLen(k, m.shape[1], m.shape[2])

\* deepcopy(dict(self)): every array is a new object, allocated as <<n, k>>
DeepCopyDict(d, n) == [k \in DOMAIN d |-> WithId(d[k], <<n, k>>)]

\* SparseMatrix.__deepcopy__ / copy
copy(self, n) ==
    IF self.cls = "Identity" THEN Identity(self.shape, self.scale)
    ELSE SparseMatrix(DeepCopyDict(self.d, n), self.shape, self.scale)

\* incorporate_scale that folds the scale into the diagonals and keeps it
incorporate_scale_keeps(self, n) ==
    IF AbsLtTol(RSub(self.scale, One), TolScale) THEN self
    ELSE [self EXCEPT
            !.d = [k \in DOMAIN self.d |-> NpScale(self.d[k], self.scale, <<n, k>>)]]

\* SparseMatrix.incorporate_scale: the matrix object after the call
incorporate_scale(self, n) ==
    IF AbsLtTol(RSub(self.scale, One), TolScale) THEN self
    ELSE [self EXCEPT
            !.d = [k \in DOMAIN self.d |-> NpScale(self.d[k], self.scale, <<n, k>>)],
            !.scale = One]

\* The loops of __add__ / __iadd__ (sign 1) and __sub__ / __isub__
\* (sign -1): d's diagonals merged into the dict f.
MergeDict(f, d, sign, n) ==
    [k \in (DOMAIN f) \cup (DOMAIN d) |->
        IF k \notin DOMAIN d THEN f[k]
        ELSE IF k \in DOMAIN f
             THEN IF sign = 1 THEN NpAdd(f[k], d[k], <<n, k>>)
                              ELSE NpSub(f[k], d[k], <<n, k>>)
             ELSE IF sign = 1 THEN d[k] ELSE NpNeg(d[k], <<n, k>>)]

MergeFails(f, d) ==
    \E k \in (DOMAIN f) \cap (DOMAIN d) : ~Broadcasts(f[k], d[k])

\* What a call leaves behind: the exception raised ("none": it returned),
\* the object returned, and the operand objects self and d after the call.
Outcome(err, f, self, d) == [err |-> err, f |-> f, self |-> self, d |-> d]

\* SparseMatrix.__add__
__add__(self, d, n) ==
    IF AbsLtTol(self.scale, TolAdd) /\ AbsLtTol(d.scale, TolAdd)
    THEN Outcome("none", SparseMatrix([k \in {0} |-> Num(Zero)], self.shape, One), self, d)
    ELSE IF AbsLtTol(self.scale, TolAdd)
    THEN Outcome("none", SparseMatrix(DeepCopyDict(d.d, n), d.shape, d.scale), self, d)
    ELSE IF AbsLtTol(d.scale, TolAdd)
    THEN Outcome("none", copy(self, n), self, d)
    ELSE LET f  == incorporate_scale(
                       SparseMatrix(DeepCopyDict(self.d, n), self.shape, self.scale), n + 1)
             d1 == incorporate_scale(d, n + 2)
         IN  IF MergeFails(f.d, d1.d)
             THEN Outcome("ValueError", NoMat, self, d1)
             ELSE Outcome("none", [f EXCEPT !.d = MergeDict(f.d, d1.d, 1, n + 3)], self, d1)

\* SparseMatrix.__sub__
__sub__(self, d, n) ==
    IF AbsLtTol(self.scale, TolAdd) /\ AbsLtTol(d.scale, TolAdd)
    THEN Outcome("none", SparseMatrix([k \in {0} |-> Num(Zero)], self.shape, One), self, d)
    ELSE IF AbsLtTol(self.scale, TolAdd)
    THEN Outcome("none", SparseMatrix(DeepCopyDict(d.d, n), d.shape, RNeg(d.scale)), self, d)
    ELSE IF AbsLtTol(d.scale, TolAdd)
    THEN Outcome("none", copy(self, n), self, d)
    ELSE LET f  == incorporate_scale(
                       SparseMatrix(DeepCopyDict(self.d, n), self.shape, self.scale), n + 1)
             d1 == incorporate_scale(d, n + 2)
         IN  IF MergeFails(f.d, d1.d)
             THEN Outcome("ValueError", NoMat, self, d1)
             ELSE Outcome("none", [f EXCEPT !.d = MergeDict(f.d, d1.d, -1, n + 3)], self, d1)

\* SparseMatrix.__iadd__
__iadd__(self, d, n) ==
    IF d.shape # self.shape THEN Outcome("AssertionError", NoMat, self, d)
    ELSE IF AbsLtTol(d.scale, TolIadd) THEN Outcome("none", self, self, d)
    ELSE IF AbsLtTol(self.scale, TolIadd)
    THEN LET s == [self EXCEPT !.d = d.d, !.scale = d.scale]
         IN  Outcome("none", s, s, d)
    ELSE LET s1 == incorporate_scale(self, n)
             d1 == incorporate_scale(d, n + 1)
             s2 == [s1 EXCEPT !.d = MergeDict(s1.d, d1.d, 1, n + 2)]
         IN  IF MergeFails(s1.d, d1.d)
             THEN Outcome("ValueError", NoMat, s1, d1)
             ELSE Outcome("none", s2, s2, d1)

\* SparseMatrix.__isub__
__isub__(self, d, n) ==
    IF d.shape # self.shape THEN Outcome("AssertionError", NoMat, self, d)
    ELSE IF AbsLtTol(d.scale, TolIadd) THEN Outcome("none", self, self, d)
    ELSE IF AbsLtTol(self.scale, TolIadd)
    THEN LET s == [self EXCEPT !.d = d.d, !.scale = RNeg(d.scale)]
         IN  Outcome("none", s, s, d)
    ELSE LET s1 == incorporate_scale(self, n)
             d1 == incorporate_scale(d, n + 1)
             s2 == [s1 EXCEPT !.d = MergeDict(s1.d, d1.d, -1, n + 2)]
         IN  IF MergeFails(s1.d, d1.d)
             THEN Outcome("ValueError", NoMat, s1, d1)
             ELSE Outcome("none", s2, s2, d1)

\* SparseMatrix.__mul__ / __rmul__ with a Number
__mul__(self, y, n) ==
    LET c == copy(self, n)
    IN  Outcome("none", [c EXCEPT !.scale = RMul(c.scale, y)], self, NoMat)

\* SparseMatrix.__imul__
__imul__(self, y) ==
    LET s == [self EXCEPT !.scale = RMul(self.scale, y)]
    IN  Outcome("none", s, s, NoMat)

\* __div__ that refuses the divisor zero only
__div__nonzero(self, y, n) ==
    IF y = Zero THEN Outcome("ZeroDivisionError", NoMat, self, NoMat)
    ELSE LET c == copy(self, n)
         IN  Outcome("none", [c EXCEPT !.scale = RDiv(c.scale, y)], self, NoMat)

\* SparseMatrix.__div__ / __truediv__ with a Number
__div__(self, y, n) ==
    IF ~AbsGtTol(y, TolDiv) THEN Outcome("AssertionError", NoMat, self, NoMat)
    ELSE LET c == copy(self, n)
         IN  Outcome("none", [c EXCEPT !.scale = RDiv(c.scale, y)], self, NoMat)

\* SparseMatrix.__neg__
__neg__(self, n) ==
    LET A == copy(self, n)
    IN  Outcome("none", [A EXCEPT !.scale = RMul(self.scale, <<-1, 1>>)], self, NoMat)

(***************************************************************************)
(* diags, equality and the dense value of a matrix                         *)
(***************************************************************************)
\* Entry (i, j), 1-based, of the matrix scipy's diags builds from the
\* stored diagonals (unscaled): element t of diagonal k sits in row t for
\* k >= 0 and in column t for k < 0; a number fills its whole diagonal.
Entry(m, i, j) ==
    LET k == j - i
    IN  IF k \notin DOMAIN m.d THEN Zero
        ELSE IF m.d[k].nd = 0 THEN m.d[k].v[1]
        ELSE m.d[k].v[IF k >= 0 THEN i ELSE j]

\* self.diags('csr', scaled).data: the nonzero entries in row-major order
\* (the conversion from the diagonal format drops the zero entries).
CsrData(m, scaled) ==
    LET N == m.shape[1]
        M == m.shape[2]
        all == [p \in 1..(N * M) |->
                   LET e == Entry(m, ((p - 1) \div M) + 1, ((p - 1) % M) + 1)
                   IN  IF scaled THEN RMul(e, m.scale) ELSE e]
        NonZero(x) == x[1] # 0
    IN  SelectSeq(all, NonZero)

RECURSIVE SumSqDiff(_, _, _)
SumSqDiff(x, y, n) ==
    IF n = 0 THEN Zero
    ELSE LET e == RSub(x[n], y[n])
         IN  RAdd(RMul(e, e), SumSqDiff(x, y, n - 1))

\* np.linalg.norm(d0 - a0) < 1e-8, as the squared norm below 1e-16
NormDiffLtTol(d0, a0) == AbsLtTol(SumSqDiff(d0, a0, Len(d0)), 2 * TolEq)

\* SparseMatrix.__hash__ and SpectralMatrix.__hash__; the hash function is
\* taken to be injective on what it hashes.
__hash__(m) ==
    IF m.cls = "SpectralMatrix"
    THEN [kind |-> "bases", basis |-> m.basis, keys |-> {}]
    ELSE [kind |-> "offsets", basis |-> "none", keys |-> DOMAIN m.d]

\* SparseMatrix.get_key and SpectralMatrix.get_key
get_key(m) == __hash__(m)

\* SparseMatrix.same_keys
same_keys(self, a) == __hash__(self) = __hash__(a)

\* __eq__ without the comparison of the stored offsets
SparseMatrix__eq__data(self, a) ==
    IF self.shape # a.shape THEN FALSE
    ELSE LET d0 == CsrData(self, FALSE)
             a0 == CsrData(a, FALSE)
         IN  Len(d0) = Len(a0) /\ NormDiffLtTol(d0, a0)

\* SparseMatrix.__eq__
SparseMatrix__eq__(self, a) ==
    IF self.shape # a.shape THEN FALSE
    ELSE IF ~same_keys(self, a) THEN FALSE
    ELSE LET d0 == CsrData(self, FALSE)
             a0 == CsrData(a, FALSE)
         IN  IF Len(d0) # Len(a0) THEN FALSE
             ELSE IF ~NormDiffLtTol(d0, a0) THEN FALSE
             ELSE TRUE

\* SpectralMatrix.__eq__ (a is a matrix here: never a Number)
SpectralMatrix__eq__(self, a) ==
    IF a.cls \notin {"SparseMatrix", "SpectralMatrix", "Identity"} THEN FALSE
    ELSE IF self.shape # a.shape THEN FALSE
    ELSE IF get_key(self) # get_key(a) THEN FALSE
    ELSE LET d0 == CsrData(self, FALSE)
             a0 == CsrData(a, FALSE)
         IN  IF Len(d0) # Len(a0) THEN FALSE
             ELSE IF ~NormDiffLtTol(d0, a0) THEN FALSE
             ELSE TRUE

\* x == y of Python: the __eq__ of the right operand comes first when its
\* class is a subclass of the left operand's class that overrides __eq__.
PyEq(x, y) ==
    IF x.cls = "SpectralMatrix" THEN SpectralMatrix__eq__(x, y)
    ELSE IF x.cls = "SparseMatrix" /\ y.cls = "SpectralMatrix"
         THEN SpectralMatrix__eq__(y, x)
    ELSE SparseMatrix__eq__(x, y)

\* Whether x == y reaches the two diags('csr', False) calls, which rebuild
\* the _diags attribute of both operands.
EqBuildsDiags(x, y) ==
    /\ x.shape = y.shape
    /\ IF x.cls = "SpectralMatrix" \/ (x.cls = "SparseMatrix" /\ y.cls = "SpectralMatrix")
       THEN get_key(x) = get_key(y)
       ELSE same_keys(x, y)

\* The dense matrix a SparseMatrix stands for: scale times the stored
\* diagonals, as a sequence of rows.
Dense(m) ==
    [i \in 1..m.shape[1] |-> [j \in 1..m.shape[2] |-> RMul(m.scale, Entry(m, i, j))]]

Undef == << >>
DShape(X) == IF X = Undef THEN <<0, 0>> ELSE <<Len(X), Len(X[1])>>
DAdd(X, Y) ==
    IF X = Undef \/ Y = Undef \/ DShape(X) # DShape(Y) THEN Undef
    ELSE [i \in 1..Len(X) |-> [j \in 1..Len(X[1]) |-> RAdd(X[i][j], Y[i][j])]]
DScale(X, c) ==
    IF X = Undef THEN Undef
    ELSE [i \in 1..Len(X) |-> [j \in 1..Len(X[1]) |-> RMul(X[i][j], c)]]
DSub(X, Y) == DAdd(X, DScale(Y, <<-1, 1>>))

(***************************************************************************)
(* The algebra harness: names A and B bound to two matrices, name R bound  *)
(* to the result of the last operator expression.                          *)
(***************************************************************************)
Regs == {"A", "B", "R"}
Tiny == <<1, 1000000000>>
MulScalars == {<<2, 1>>, <<-1, 2>>}
DivScalars == {<<2, 1>>, <<-1, 2>>, Zero, Tiny}

Ramp(len) == [j \in 1..len |-> <<j, 1>>]
Ones(len) == [j \in 1..len |-> One]

\* The diagonal maps the algebra harness starts from, for a shape: a full
\* main diagonal, a number on the main diagonal with an array above it, and
\* a single off-diagonal.
AlgDicts(shape, owner) ==
    LET L0 == DiagLen(0, shape[1], shape[2])
        L1 == DiagLen(1, shape[1], shape[2])
    IN  [diag  |-> [k \in {0} |-> Arr(Ramp(L0), <<owner, 0>>)],
         upper |-> [k \in {0, 1} |-> IF k = 0 THEN Num(<<2, 1>>)
                                     ELSE Arr(Ones(L1), <<owner, 1>>)],
         off   |-> [k \in {1} |-> Arr(Ramp(L1), <<owner, 1>>)]]

AlgScales == {Zero, One, <<2, 1>>}

AlgInputsA ==
    LET D == AlgDicts(<<2, 2>>, 1)
    IN  { SparseMatrix(d, <<2, 2>>, s) : d \in {D.diag, D.upper}, s \in AlgScales }
        \cup { SpectralMatrix(D.diag, "T0", <<2, 2>>, One) }

AlgInputsB ==
    LET D == AlgDicts(<<2, 2>>, 2)
        E == AlgDicts(<<3, 3>>, 2)
    IN  { SparseMatrix(d, <<2, 2>>, s) : d \in {D.diag, D.off}, s \in AlgScales }
        \cup { SparseMatrix(d, <<3, 3>>, <<2, 1>>) : d \in {E.diag, E.upper} }

Bound(m) == m.cls # "None"
DenseOrUndef(m) == IF Bound(m) /\ WellFormed(m) THEN Dense(m) ELSE Undef

NoProv == [tag |-> "none", c |-> Zero]
Call(op, x, y, c, err, val) ==
    [op |-> op, x |-> x, y |-> y, c |-> c, err |-> err, val |-> val]
NoCall == Call("none", "-", "-", Zero, "none", FALSE)

mvIdle == [state |-> "idle"]
solIdle == [state |-> "idle"]
tpIdle == [state |-> "idle"]

InitWith(a, b) ==
    /\ mat = [r \in Regs |-> IF r = "A" THEN a ELSE IF r = "B" THEN b ELSE NoMat]
    /\ nextId = 3
    /\ nops = 0
    /\ last = NoCall
    /\ ref = [r \in Regs |-> IF r = "A" THEN Dense(a) ELSE IF r = "B" THEN Dense(b) ELSE Undef]
    /\ prov = NoProv
    /\ mv = mvIdle
    /\ tpm = tpIdle
    /\ sol = solIdle

InitAlg == \E a \in AlgInputsA, b \in AlgInputsB : InitWith(a, b)

Usable(x) == Bound(mat[x]) /\ WellFormed(mat[x])

\* R = x + y
Add(x, y) ==
    /\ Usable(x) /\ Usable(y)
    /\ LET r == __add__(mat[x], mat[y], nextId)
       IN  /\ mat' = IF r.err = "none"
                     THEN [[mat EXCEPT ![y] = r.d] EXCEPT !["R"] = r.f]
                     ELSE [mat EXCEPT ![y] = r.d]
           /\ ref' = IF r.err = "none"
                     THEN [ref EXCEPT !["R"] = DAdd(ref[x], ref[y])]
                     ELSE ref
           /\ prov' = IF r.err = "none" /\ x = "A" /\ y = "B"
                      THEN [tag |-> "add", c |-> Zero] ELSE NoProv
           /\ last' = Call("add", x, y, Zero, r.err, FALSE)
    /\ nextId' = nextId + 4
    /\ nops' = nops + 1
    /\ UNCHANGED <<mv, sol, tpm>>

\* R = x - y
Sub(x, y) ==
    /\ Usable(x) /\ Usable(y)
    /\ LET r == __sub__(mat[x], mat[y], nextId)
       IN  /\ mat' = IF r.err = "none"
                     THEN [[mat EXCEPT ![y] = r.d] EXCEPT !["R"] = r.f]
                     ELSE [mat EXCEPT ![y] = r.d]
           /\ ref' = IF r.err = "none"
                     THEN [ref EXCEPT !["R"] = DSub(ref[x], ref[y])]
                     ELSE ref
           /\ prov' = IF r.err = "none" /\ x = "R" /\ y = "B" /\ prov.tag = "add"
                      THEN [tag |-> "addsub", c |-> Zero] ELSE NoProv
           /\ last' = Call("sub", x, y, Zero, r.err, FALSE)
    /\ nextId' = nextId + 4
    /\ nops' = nops + 1
    /\ UNCHANGED <<mv, sol, tpm>>

\* x += y
IAdd(x, y) ==
    /\ Usable(x) /\ Usable(y)
    /\ LET r == __iadd__(mat[x], mat[y], nextId)
       IN  /\ mat' = [[mat EXCEPT ![y] = r.d] EXCEPT ![x] = r.self]
           /\ ref' = IF r.err = "none"
                     THEN [ref EXCEPT ![x] = DAdd(ref[x], ref[y])]
                     ELSE ref
           /\ last' = Call("iadd", x, y, Zero, r.err, FALSE)
    /\ prov' = NoProv
    /\ nextId' = nextId + 3
    /\ nops' = nops + 1
    /\ UNCHANGED <<mv, sol, tpm>>

\* x -= y
ISub(x, y) ==
    /\ Usable(x) /\ Usable(y)
    /\ LET r == __isub__(mat[x], mat[y], nextId)
       IN  /\ mat' = [[mat EXCEPT ![y] = r.d] EXCEPT ![x] = r.self]
           /\ ref' = IF r.err = "none"
                     THEN [ref EXCEPT ![x] = DSub(ref[x], ref[y])]
                     ELSE ref
           /\ last' = Call("isub", x, y, Zero, r.err, FALSE)
    /\ prov' = NoProv
    /\ nextId' = nextId + 3
    /\ nops' = nops + 1
    /\ UNCHANGED <<mv, sol, tpm>>

\* R = x * c
Mul(x, c) ==
    /\ Usable(x)
    /\ LET r == __mul__(mat[x], c, nextId)
       IN  /\ mat' = [mat EXCEPT !["R"] = r.f]
           /\ ref' = [ref EXCEPT !["R"] = DScale(ref[x], c)]
           /\ last' = Call("mul", x, "-", c, r.err, FALSE)
    /\ prov' = IF x = "A" THEN [tag |-> "mul", c |-> c] ELSE NoProv
    /\ nextId' = nextId + 1
    /\ nops' = nops + 1
    /\ UNCHANGED <<mv, sol, tpm>>

\* R = x / c
Div(x, c) ==
    /\ Usable(x)
    /\ LET r == __div__(mat[x], c, nextId)
       IN  /\ mat' = IF r.err = "none" THEN [mat EXCEPT !["R"] = r.f] ELSE mat
           /\ ref' = IF r.err = "none"
                     THEN [ref EXCEPT !["R"] = DScale(ref[x], RDiv(One, c))]
                     ELSE ref
           /\ prov' = IF r.err = "none" /\ x = "R" /\ prov = [tag |-> "mul", c |-> c]
                      THEN [tag |-> "muldiv", c |-> c] ELSE NoProv
           /\ last' = Call("div", x, "-", c, r.err, FALSE)
    /\ nextId' = nextId + 1
    /\ nops' = nops + 1
    /\ UNCHANGED <<mv, sol, tpm>>

\* x *= c
IMul(x, c) ==
    /\ Usable(x)
    /\ LET r == __imul__(mat[x], c)
       IN  /\ mat' = [mat EXCEPT ![x] = r.self]
           /\ ref' = [ref EXCEPT ![x] = DScale(ref[x], c)]
           /\ last' = Call("imul", x, "-", c, r.err, FALSE)
    /\ prov' = NoProv
    /\ nops' = nops + 1
    /\ UNCHANGED <<nextId, mv, sol, tpm>>

\* R = -x
Neg(x) ==
    /\ Usable(x)
    /\ LET r == __neg__(mat[x], nextId)
       IN  /\ mat' = [mat EXCEPT !["R"] = r.f]
           /\ ref' = [ref EXCEPT !["R"] = DScale(ref[x], <<-1, 1>>)]
           /\ last' = Call("neg", x, "-", Zero, r.err, FALSE)
    /\ prov' = NoProv
    /\ nextId' = nextId + 1
    /\ nops' = nops + 1
    /\ UNCHANGED <<mv, sol, tpm>>

\* x.incorporate_scale()
IncorporateScale(x) ==
    /\ Usable(x)
    /\ mat' = [mat EXCEPT ![x] = incorporate_scale(mat[x], nextId)]
    /\ last' = Call("incorporate_scale", x, "-", Zero, "none", FALSE)
    /\ prov' = NoProv
    /\ nextId' = nextId + 1
    /\ nops' = nops + 1
    /\ UNCHANGED <<ref, mv, sol, tpm>>

\* x == y
Eq(x, y) ==
    /\ Usable(x) /\ Usable(y)
    /\ mat' = IF EqBuildsDiags(mat[x], mat[y])
              THEN [r \in Regs |-> IF r \in {x, y} THEN [mat[r] EXCEPT !.diags = "csr"]
                                   ELSE mat[r]]
              ELSE mat
    /\ last' = Call("eq", x, y, Zero, "none", PyEq(mat[x], mat[y]))
    /\ UNCHANGED <<nextId, nops, ref, prov, mv, sol, tpm>>

NextAlg ==
    /\ nops < MaxOps
    /\ \/ \E x \in {"A", "R"} : Add(x, "B")
       \/ \E x \in {"A", "R"} : Sub(x, "B")
       \/ \E x \in {"A", "R"} : IAdd(x, "B")
       \/ \E x \in {"A", "R"} : ISub(x, "B")
       \/ \E x \in {"A", "R"}, c \in MulScalars : Mul(x, c)
       \/ \E x \in {"A", "R"}, c \in DivScalars : Div(x, c)
       \/ \E x \in {"A", "R"}, c \in MulScalars \cup {Zero} : IMul(x, c)
       \/ \E x \in {"A", "R"} : Neg(x)
       \/ \E x \in Regs : IncorporateScale(x)

SpecAlg == InitAlg /\ [][NextAlg]_vars

(***************************************************************************)
(* The closure harness: the test programs (A + B) - B == A and             *)
(* (A * c) / c == A, run on the algebra harness.                           *)
(***************************************************************************)
ClosureInputsA ==
    LET D == AlgDicts(<<2, 2>>, 1)
    IN  { SparseMatrix(d, <<2, 2>>, s) : d \in {D.diag, D.upper, D.off}, s \in AlgScales }
        \cup { SpectralMatrix(d, "T0", <<2, 2>>, s) : d \in {D.diag, D.upper}, s \in AlgScales }

ClosureInputsB ==
    LET D == AlgDicts(<<2, 2>>, 2)
        E == AlgDicts(<<3, 3>>, 2)
    IN  { SparseMatrix(d, <<2, 2>>, s) : d \in {D.diag, D.upper, D.off}, s \in AlgScales }
        \cup { SpectralMatrix(d, "T0", <<2, 2>>, s) : d \in {D.diag}, s \in AlgScales }
        \cup { SparseMatrix(d, <<3, 3>>, <<2, 1>>) : d \in {E.diag, E.upper} }

InitClosure == \E a \in ClosureInputsA, b \in ClosureInputsB : InitWith(a, b)

NextClosure ==
    \/ prov.tag = "none" /\ nops = 0 /\ Add("A", "B")
    \/ prov.tag = "add" /\ Sub("R", "B")
    \/ prov.tag = "none" /\ nops = 0 /\ \E c \in MulScalars : Mul("A", c)
    \/ prov.tag = "mul" /\ Div("R", prov.c)
    \/ prov.tag \in {"addsub", "muldiv"} /\ Eq("R", "A")
    \/ prov.tag \in {"addsub", "muldiv"} /\ Eq("A", "R")

SpecClosure == InitClosure /\ [][NextClosure]_vars

(***************************************************************************)
(* The equality harness: A == B and B == A on two constructed matrices.    *)
(***************************************************************************)
EqShapes == {<<2, 2>>, <<2, 3>>}
EqOffsets == {0, 1}
EqValues == {Zero, One}

DiagChoices(shape, k, owner) ==
    LET L == DiagLen(k, shape[1], shape[2])
    IN  {Num(One)} \cup { Arr(s, <<owner, k>>) : s \in [1..L -> EqValues] }

DictsOn(shape, S, owner) ==
    { f \in [S -> UNION { DiagChoices(shape, k, owner) : k \in S }] :
        \A k \in S : f[k] \in DiagChoices(shape, k, owner) }

EqDicts(shape, owner) == UNION { DictsOn(shape, S, owner) : S \in SUBSET EqOffsets }

EqInputs(owner) ==
    { SparseMatrix(d, sh, s) :
        d \in UNION { EqDicts(sh2, owner) : sh2 \in EqShapes }, sh \in EqShapes,
        s \in {One, <<2, 1>>} }
    \cup { SpectralMatrix([k \in {0} |-> Arr(Ones(2), <<owner, 0>>)], b, <<2, 2>>, One) :
             b \in {"T0", "T1"} }

InitEq ==
    \E a \in { m \in EqInputs(1) : WellFormed(m) },
       b \in { m \in EqInputs(2) : WellFormed(m) } : InitWith(a, b)

NextEq ==
    \/ Eq("A", "B")
    \/ Eq("B", "A")

SpecEq == InitEq /\ [][NextEq]_vars

(***************************************************************************)
(* Claims on the algebra                                                   *)
(***************************************************************************)
\* The values of the stored diagonals, without the identity of the arrays
DiagVals(m) == [k \in DOMAIN m.d |-> [nd |-> m.d[k].nd, v |-> m.d[k].v]]

\* The array objects a matrix stores
ArrayIds(m) == { m.d[k].id : k \in { j \in DOMAIN m.d : m.d[j].nd = 1 } }

\* A step of the algebra harness that called operator `op`
Called(op) == nops' = nops + 1 /\ last'.op = op

\* C1: for matrices A, B of equal shape, with any scale factors and any
\* stored offsets, (A + B) - B compares equal to A under __eq__.
C1_AddSubClosure ==
    (/\ last.op = "eq" /\ last.x = "R" /\ last.y = "A"
     /\ prov.tag = "addsub"
     /\ mat["A"].shape = mat["B"].shape)
    => last.val = TRUE

\* C2: for every matrix A and scalar c with |c| > 1e-8, (A * c) / c
\* compares equal to A, in both orders of the comparison.
C2_MulDivClosure ==
    (/\ last.op = "eq" /\ {last.x, last.y} = {"A", "R"}
     /\ prov.tag = "muldiv"
     /\ AbsGtTol(prov.c, TolDiv))
    => last.val = TRUE

\* C4: after any sequence of *=, *, /, negation, incorporate_scale, += and
\* -= the effective matrix (scale times stored diagonals) of every matrix
\* equals the result of the same operations on the dense matrix;
\* incorporate_scale does not change the effective matrix; scalar multiply,
\* divide and negate change the scale only, never the stored diagonals.
C4_EffectiveInv ==
    \A r \in Regs :
        (Usable(r) /\ ref[r] # Undef) => Dense(mat[r]) = ref[r]

C4_ScaleOnlyStep ==
    /\ Called("incorporate_scale") => Dense(mat'[last'.x]) = Dense(mat[last'.x])
    /\ (\E op \in {"mul", "div", "neg"} : Called(op)) /\ last'.err = "none"
         => /\ DiagVals(mat'["R"]) = DiagVals(mat[last'.x])
            /\ last'.x # "R" => mat'[last'.x] = mat[last'.x]
    /\ Called("imul") => mat'[last'.x].d = mat[last'.x].d

C4_LazyScaleConsistent == []C4_EffectiveInv /\ [][C4_ScaleOnlyStep]_vars

C4_Witness ==
    /\ nops = MaxOps
    /\ last.op \in {"iadd", "isub"} /\ last.err = "none"
    /\ DOMAIN mat["A"].d = {0, 1}
    /\ mat["A"].scale = One
    /\ mat["B"].scale = One
    /\ mat["R"].scale \notin {Zero, One}

\* C5: A + B and A - B leave both operands with the stored diagonals and
\* scale they had, and the result shares no diagonal array with an operand.
C5_Step ==
    ((Called("add") \/ Called("sub")) /\ last'.err = "none")
    => /\ mat'["B"].d = mat["B"].d
       /\ mat'["B"].scale = mat["B"].scale
       /\ ArrayIds(mat'["R"]) \cap ArrayIds(mat'["B"]) = {}
       /\ last'.x = "A" =>
            /\ mat'["A"].d = mat["A"].d
            /\ mat'["A"].scale = mat["A"].scale
            /\ ArrayIds(mat'["R"]) \cap ArrayIds(mat'["A"]) = {}

C5_ResultOwnsData == [][C5_Step]_vars

\* C6: +, -, += and -= on matrices of different shapes fail with an error,
\* produce no result and modify neither operand, whatever the scales.
C6_Step ==
    ((\E op \in {"add", "sub", "iadd", "isub"} : Called(op))
        /\ mat[last'.x].shape # mat[last'.y].shape)
    => /\ last'.err # "none"
       /\ mat' = mat

C6_ShapeMismatchFails == [][C6_Step]_vars

\* C7: dividing a SparseMatrix by a scalar y with |y| < 1e-8 fails: no
\* matrix is returned and the scale and stored diagonals are unchanged.
C7_Step ==
    (Called("div") /\ AbsLtTol(last'.c, TolDiv))
    => /\ last'.err # "none"
       /\ mat' = mat

C7_DivNearZeroFails == [][C7_Step]_vars

C7_Witness ==
    /\ last.op = "div" /\ last.c = Tiny /\ last.err = "AssertionError"
    /\ mat["A"].scale = <<2, 1>>

MaxDim == 2

Max(a, b) == IF a >= b THEN a ELSE b

\* The index range [a, b) of a slice a:b of an array of length L (0-based)
SliceLo(a, L) == Min(a, L)
SliceHi(b, L) == Max(Min(b, L), Min(b, 0))
SliceLen(a, b, L) == Max(0, Min(b, L) - Min(a, L))

RECURSIVE SumSeq(_, _)
SumSeq(x, n) == IF n = 0 THEN Zero ELSE RAdd(x[n], SumSeq(x, n - 1))

\* The statement c[cs] += val * v[vs] of the 'python' format for one stored
\* diagonal: the slices, whether the shapes broadcast, and the amount added
\* to entry i (1-based) of c.
PySlices(m, key, L) ==
    LET N == m.shape[1]
        M == m.shape[2]
    IN  IF key < 0
        THEN [clo |-> SliceLo(-key, L), clen |-> SliceLen(-key, Min(N, M - key), L),
              vlo |-> 0, vlen |-> SliceLen(0, Min(M, N + key), L)]
        ELSE [clo |-> 0, clen |-> SliceLen(0, Min(N, M - key), L),
              vlo |-> SliceLo(key, L), vlen |-> SliceLen(key, Min(M, N + key), L)]

PyProductLen(val, sl) ==
    IF val.nd = 0 \/ Len(val.v) = 1 THEN sl.vlen
    ELSE IF sl.vlen = 1 THEN Len(val.v)
    ELSE sl.vlen

PyDiagonalFits(m, key, L) ==
    LET sl == PySlices(m, key, L)
        val == m.d[key]
    IN  /\ val.nd = 0 \/ Len(val.v) = sl.vlen \/ Len(val.v) = 1 \/ sl.vlen = 1
        /\ PyProductLen(val, sl) = sl.clen \/ PyProductLen(val, sl) = 1

PyContribution(m, key, v, i) ==
    LET sl == PySlices(m, key, Len(v))
        val == m.d[key]
        t == (i - 1) - sl.clo
        p == PyProductLen(val, sl)
        tp == IF p = 1 THEN 0 ELSE t
    IN  IF t < 0 \/ t >= sl.clen THEN Zero
        ELSE RMul(IF val.nd = 0 \/ Len(val.v) = 1 THEN val.v[1] ELSE val.v[tp + 1],
                  IF sl.vlen = 1 THEN v[sl.vlo + 1] ELSE v[sl.vlo + tp + 1])

RECURSIVE PyAccumulate(_, _, _, _)
PyAccumulate(m, keys, v, i) ==
    IF keys = {} THEN Zero
    ELSE LET key == CHOOSE k \in keys : TRUE
         IN  RAdd(PyContribution(m, key, v, i), PyAccumulate(m, keys \ {key}, v, i))

\* matvec, format == 'python'
matvec_python(m, v) ==
    IF \E key \in DOMAIN m.d : ~PyDiagonalFits(m, key, Len(v))
    THEN [err |-> "ValueError", c |-> [i \in 1..Len(v) |-> Zero]]
    ELSE [err |-> "none",
          c |-> [i \in 1..Len(v) |-> RMul(PyAccumulate(m, DOMAIN m.d, v, i), m.scale)]]

\* self.diags(format).dot(v[:M].reshape(M, 1)): the product of the scaled
\* sparse matrix with the first M entries of v, N rows
SparseDot(m, v) ==
    [i \in 1..m.shape[1] |->
        SumSeq([j \in 1..m.shape[2] |-> RMul(RMul(Entry(m, i, j), m.scale), v[j])],
               m.shape[2])]

\* matvec, format 'csr' or 'dia': y = (...).squeeze() has shape (N,) for
\* N > 1 and shape () for N = 1; d = one slice(0, n) per axis of y;
\* c[d] = y.reshape(c[d].shape).
matvec_sparse(m, v) ==
    LET N == m.shape[1]
        L == Len(v)
        y == SparseDot(m, v)
        yshape == IF N = 1 THEN << >> ELSE <<N>>
        cdlen == IF yshape = << >> THEN L ELSE Min(N, L)
    IN  IF cdlen # N
        THEN [err |-> "ValueError", c |-> [i \in 1..L |-> Zero]]
        ELSE [err |-> "none", c |-> [i \in 1..L |-> IF i <= cdlen THEN y[i] ELSE Zero]]

\* SparseMatrix.matvec(v, c, format)
matvec(m, v, format) ==
    IF format = "python" THEN matvec_python(m, v) ELSE matvec_sparse(m, v)

\* The matrices and vectors of the matvec harness
MvShapes == { <<N, M>> : N \in 1..MaxDim, M \in 1..MaxDim }
MvValues(shape, k) ==
    LET L == DiagLen(k, shape[1], shape[2])
    IN  {Num(<<2, 1>>), Arr(Ones(L), <<1, k>>), Arr(Ramp(L), <<1, k>>)}
MvDicts(shape) ==
    LET offs == (1 - shape[1])..(shape[2] - 1)
    IN  UNION { { f \in [S -> UNION { MvValues(shape, k) : k \in S }] :
                    \A k \in S : f[k] \in MvValues(shape, k) } : S \in SUBSET offs }
MvScales == {One, <<2, 1>>}
MvFormats == {"python", "csr", "dia"}
Junk == <<7, 1>>

InitMatvec ==
    /\ \E shape \in MvShapes :
       \E d \in MvDicts(shape), s \in MvScales, L \in Max(shape[1], shape[2])..MaxDim :
       \E v \in {Ramp(L), Ones(L)} :
          mv = [state |-> "ready", A |-> SparseMatrix(d, shape, s), v |-> v,
                c |-> [i \in 1..L |-> Junk], format |-> "-", err |-> "none"]
    /\ mat = [r \in Regs |-> NoMat]
    /\ nextId = 3
    /\ nops = 0
    /\ last = NoCall
    /\ ref = [r \in Regs |-> Undef]
    /\ prov = NoProv
    /\ sol = solIdle
    /\ tpm = tpIdle

\* c = A.matvec(v, c, format)
Matvec(format) ==
    /\ mv.state = "ready"
    /\ LET r == matvec(mv.A, mv.v, format)
       IN  mv' = [mv EXCEPT !.state = "done", !.c = r.c, !.err = r.err,
                            !.format = format,
                            !.A = IF format = "python" THEN mv.A
                                  ELSE [mv.A EXCEPT !.diags = format]]
    /\ UNCHANGED <<algVars, sol, tpm>>

NextMatvec == \E format \in MvFormats : Matvec(format)

SpecMatvec == InitMatvec /\ [][NextMatvec]_vars

\* The dense reference product: rows 1..N of scale * (A v), zero below
DenseProduct(m, v) ==
    [i \in 1..Len(v) |->
        IF i <= m.shape[1]
        THEN SumSeq([j \in 1..m.shape[2] |-> RMul(Dense(m)[i][j], v[j])], m.shape[2])
        ELSE Zero]

\* C3: for every shape, every set of stored offsets and every scale, matvec
\* in the 'python' format writes c = scale * (A v), and the sparse formats
\* ('csr', 'dia') return the same c for the same v.
C3_MatvecAgrees ==
    mv.state = "done" =>
        /\ mv.err = "none"
        /\ mv.c = DenseProduct(mv.A, mv.v)

(***************************************************************************)
(* issymmetric and get_solver                                              *)
(***************************************************************************)
SolDim == 5
MaxDiags == 5

RECURSIVE SumSet(_)
SumSet(S) == IF S = {} THEN 0 ELSE LET k == CHOOSE x \in S : TRUE IN k + SumSet(S \ {k})

\* np.all(abs(x - y) < 1e-8)
AllClose(x, y) ==
    LET e == NpSub(x, y, NoId)
    IN  \A j \in 1..Len(e.v) : AbsLtTol(e.v[j], TolSym)

\* SparseMatrix.issymmetric.  The loop runs over the stored diagonals in
\* the order of the dict and stops at the first key > 0 that decides: the
\* set holds the outcome for every order the dict can have.
issymmetric(self) ==
    LET pos == { k \in DOMAIN self.d : k > 0 }
        missing == { k \in pos : -k \notin DOMAIN self.d }
        paired == pos \ missing
        clash == { k \in paired : ~Broadcasts(self.d[k], self.d[-k]) }
        differ == { k \in paired \ clash : ~AllClose(self.d[k], self.d[-k]) }
    IN  IF SumSet(DOMAIN self.d) # 0 THEN {"False"}
        ELSE IF missing \cup clash \cup differ = {} THEN {"True"}
        ELSE (IF missing # {} THEN {"KeyError"} ELSE {})
             \cup (IF clash # {} THEN {"ValueError"} ELSE {})
             \cup (IF differ # {} THEN {"False"} ELSE {})

Raised(r) == r \in {"KeyError", "ValueError"}

\* `keys-test and self.issymmetric`, the property read only when the test
\* on the keys holds
KeysAndSymmetric(self, keys, solver) ==
    IF DOMAIN self.d # keys THEN {"Solve"}
    ELSE { IF r = "True" THEN solver ELSE IF r = "False" THEN "Solve" ELSE r :
             r \in issymmetric(self) }

\* get_solver with the symmetry test on the whole three-diagonal branch
get_solver_sym3(self) ==
    LET n == Cardinality(DOMAIN self.d)
        keys == DOMAIN self.d
    IN  IF n = 2 THEN (IF keys = {0, 2} THEN {"TwoDMA"} ELSE {"Solve"})
        ELSE IF n = 3
        THEN { IF Raised(r) THEN r
               ELSE IF r = "False" THEN "Solve"
               ELSE IF keys = {-2, 0, 2} THEN "TDMA"
               ELSE IF keys = {-1, 0, 1} THEN "TDMA_O" ELSE "Solve" :
                 r \in issymmetric(self) }
        ELSE IF n = 4 THEN (IF keys = {-2, 0, 2, 4} THEN {"FDMA"} ELSE {"Solve"})
        ELSE IF n = 5
        THEN { IF Raised(r) THEN r
               ELSE IF r = "True" /\ keys = {-4, -2, 0, 2, 4} THEN "PDMA" ELSE "Solve" :
                 r \in issymmetric(self) }
        ELSE {"Solve"}

\* SparseMatrix.get_solver: the solver class it returns, or the exception
get_solver(self) ==
    LET n == Cardinality(DOMAIN self.d)
        keys == DOMAIN self.d
    IN  IF n = 2 THEN (IF keys = {0, 2} THEN {"TwoDMA"} ELSE {"Solve"})
        ELSE IF n = 3
        THEN IF keys = {-2, 0, 2} THEN {"TDMA"}
             ELSE KeysAndSymmetric(self, {-1, 0, 1}, "TDMA_O")
        ELSE IF n = 4 THEN (IF keys = {-2, 0, 2, 4} THEN {"FDMA"} ELSE {"Solve"})
        ELSE IF n = 5
        THEN { IF Raised(r) THEN r
               ELSE IF r = "True" /\ keys = {-4, -2, 0, 2, 4} THEN "PDMA" ELSE "Solve" :
                 r \in issymmetric(self) }
        ELSE {"Solve"}

\* The matrices of the solver harness: square, at most MaxDiags stored
\* diagonals; a diagonal below the main one is an array of ones, one on or
\* above it an array of ones or of ones ending in a two.
OnesThenTwo(L) == [j \in 1..L |-> IF j = L THEN <<2, 1>> ELSE One]
SolKeySets == { S \in SUBSET ((1 - SolDim)..(SolDim - 1)) : Cardinality(S) <= MaxDiags }
SolDiagonal(k, two) ==
    LET L == DiagLen(k, SolDim, SolDim)
    IN  Arr(IF two THEN OnesThenTwo(L) ELSE Ones(L), <<1, k>>)
SolDicts ==
    UNION { { [k \in S |-> SolDiagonal(k, k \in T)] : T \in SUBSET { k \in S : k >= 0 } } :
            S \in SolKeySets }

InitSolver ==
    /\ \E d \in SolDicts, s \in {One, <<2, 1>>} :
          sol = [state |-> "ready", A |-> SparseMatrix(d, <<SolDim, SolDim>>, s),
                 query |-> "-", result |-> "-"]
    /\ mat = [r \in Regs |-> NoMat]
    /\ nextId = 3
    /\ nops = 0
    /\ last = NoCall
    /\ ref = [r \in Regs |-> Undef]
    /\ prov = NoProv
    /\ mv = mvIdle
    /\ tpm = tpIdle

\* A.issymmetric
IsSymmetric ==
    /\ sol.state = "ready"
    /\ \E r \in issymmetric(sol.A) :
          sol' = [sol EXCEPT !.state = "done", !.query = "issymmetric", !.result = r]
    /\ UNCHANGED <<algVars, mv, tpm>>

\* A.get_solver()
GetSolver ==
    /\ sol.state = "ready"
    /\ \E r \in get_solver(sol.A) :
          sol' = [sol EXCEPT !.state = "done", !.query = "get_solver", !.result = r]
    /\ UNCHANGED <<algVars, mv, tpm>>

NextSolver == IsSymmetric \/ GetSolver

SpecSolver == InitSolver /\ [][NextSolver]_vars

\* The symmetry condition: the stored offsets sum to zero and every stored
\* diagonal k > 0 has a stored diagonal -k equal to it within 1e-8.
SymmetricDiagonals(m) ==
    /\ SumSet(DOMAIN m.d) = 0
    /\ \A k \in DOMAIN m.d :
         k > 0 => /\ -k \in DOMAIN m.d
                  /\ Len(m.d[k].v) = Len(m.d[-k].v)
                  /\ \A j \in 1..Len(m.d[k].v) :
                        AbsLtTol(RSub(m.d[k].v[j], m.d[-k].v[j]), TolSym)

\* C9: whatever the stored offsets, issymmetric is true iff the offsets sum
\* to zero and every stored diagonal k > 0 equals diagonal -k within 1e-8,
\* and false in every other case.
C9_IsSymmetricTotal ==
    (sol.state = "done" /\ sol.query = "issymmetric")
    => sol.result = (IF SymmetricDiagonals(sol.A) THEN "True" ELSE "False")

\* C10: get_solver picks the solver from the set of stored offsets:
\* {0, 2} TwoDMA, {-2, 0, 2} TDMA, {-1, 0, 1} and symmetric TDMA_O,
\* {-2, 0, 2, 4} FDMA, {-4, -2, 0, 2, 4} and symmetric PDMA, whatever the
\* scale and the values of the diagonals.
C10_SolverBySignature ==
    (sol.state = "done" /\ sol.query = "get_solver")
    => LET keys == DOMAIN sol.A.d
       IN  /\ keys = {0, 2} => sol.result = "TwoDMA"
           /\ keys = {-2, 0, 2} => sol.result = "TDMA"
           /\ (keys = {-1, 0, 1} /\ SymmetricDiagonals(sol.A)) => sol.result = "TDMA_O"
           /\ keys = {-2, 0, 2, 4} => sol.result = "FDMA"
           /\ (keys = {-4, -2, 0, 2, 4} /\ SymmetricDiagonals(sol.A)) => sol.result = "PDMA"

C10_Witness ==
    /\ sol.state = "done" /\ sol.query = "get_solver"
    /\ sol.result = "PDMA"
    /\ sol.A.scale = <<2, 1>>
    /\ sol.A.d[0].v = OnesThenTwo(SolDim)

\* The five specialized signatures, with the symmetry they ask for
Specialized(m) ==
    LET keys == DOMAIN m.d
    IN  \/ keys \in {{0, 2}, {-2, 0, 2}, {-2, 0, 2, 4}}
        \/ keys \in {{-1, 0, 1}, {-4, -2, 0, 2, 4}} /\ SymmetricDiagonals(m)

\* C11: get_solver returns a solver for every matrix, never an exception,
\* and for every set of stored offsets that is not one of the five
\* specialized signatures it returns Solve.
C11_FallbackTotal ==
    (sol.state = "done" /\ sol.query = "get_solver")
    => /\ sol.result \in {"TwoDMA", "TDMA", "TDMA_O", "FDMA", "PDMA", "Solve"}
       /\ ~Specialized(sol.A) => sol.result = "Solve"

(***************************************************************************)
(* The cached solver: solve on SparseMatrix and BlockMatrix instances, and *)
(* the calls that change the stored diagonals.  The instances are the      *)
(* registers A, R (a copy of A) and the BlockMatrix K; of the solver       *)
(* classes only their construction is followed.                            *)
(***************************************************************************)
MaxCalls == 3

Instances == {"A", "R", "K"}
CacheShape == <<5, 5>>
CacheArr(k, x, owner) ==
    Arr([j \in 1..DiagLen(k, CacheShape[1], CacheShape[2]) |-> x], <<owner, k>>)
CacheDict(keys, zeros, owner) ==
    [k \in keys |-> CacheArr(k, IF k \in zeros THEN Zero ELSE One, owner)]

CacheInputsA ==
    { SparseMatrix(CacheDict(keys, {}, 1), CacheShape, One) :
        keys \in {{-2, 0, 2}, {0, 2}, {-1, 0, 1}, {-4, -2, -1, 3, 4}} }
    \cup { SparseMatrix(CacheDict({-2, 0, 2}, {-2}, 1), CacheShape, <<2, 1>>) }

CacheInputB == SparseMatrix(CacheDict({-2}, {}, 2), CacheShape, One)

\* BlockMatrix.__init__, of which the solver attribute is followed
BlockMatrix == [cls |-> "BlockMatrix", solver |-> NoSolver]

NoLog == [who |-> "-", err |-> "none", used |-> NoSolver, built |-> FALSE]

CacheLog(ncalls, nbuilt, stamp, block, log) ==
    [state |-> "cache", ncalls |-> ncalls, nbuilt |-> nbuilt, stamp |-> stamp,
     block |-> block, log |-> log]

InitCache ==
    /\ \E a \in CacheInputsA :
          /\ mat = [r \in Regs |-> IF r = "A" THEN a ELSE IF r = "B" THEN CacheInputB ELSE NoMat]
          /\ ref = [r \in Regs |-> IF r = "A" THEN Dense(a)
                                   ELSE IF r = "B" THEN Dense(CacheInputB) ELSE Undef]
    /\ nextId = 3
    /\ nops = 0
    /\ last = NoCall
    /\ prov = NoProv
    /\ mv = mvIdle
    /\ tpm = tpIdle
    /\ sol = CacheLog([x \in Instances |-> 0], [x \in Instances |-> 0],
                      [x \in Instances |-> EmptyDict], BlockMatrix, NoLog)

\* SparseMatrix.solve on register x.  The solver is constructed by
\* self.get_solver()(self) when self.solver is None; the call of the solver
\* object follows.
Solve(x) ==
    /\ Usable(x)
    /\ \E r \in (IF mat[x].solver = NoSolver THEN get_solver(mat[x]) ELSE {"cached"}) :
         LET built == r # "cached" /\ ~Raised(r)
             solver == IF built THEN [cls |-> r, id |-> nextId] ELSE mat[x].solver
         IN  /\ mat' = [mat EXCEPT ![x].solver = solver]
             /\ sol' = [sol EXCEPT
                          !.ncalls[x] = @ + 1,
                          !.nbuilt[x] = IF built THEN @ + 1 ELSE @,
                          !.stamp[x] = IF built THEN mat[x].d ELSE @,
                          !.log = [who |-> x, err |-> IF Raised(r) THEN r ELSE "none",
                                   used |-> solver, built |-> built]]
             /\ last' = Call("solve", x, "-", Zero, IF Raised(r) THEN r ELSE "none", FALSE)
    /\ nextId' = nextId + 1
    /\ nops' = nops + 1
    /\ UNCHANGED <<ref, prov, mv, tpm>>

\* BlockMatrix.solve on K
BlockSolve ==
    /\ LET built == sol.block.solver = NoSolver
           solver == IF built THEN [cls |-> "BlockMatrixSolver", id |-> nextId]
                     ELSE sol.block.solver
       IN  sol' = [sol EXCEPT
                     !.ncalls["K"] = @ + 1,
                     !.nbuilt["K"] = IF built THEN @ + 1 ELSE @,
                     !.block.solver = solver,
                     !.log = [who |-> "K", err |-> "none", used |-> solver, built |-> built]]
    /\ last' = Call("solve", "K", "-", Zero, "none", FALSE)
    /\ nextId' = nextId + 1
    /\ nops' = nops + 1
    /\ UNCHANGED <<mat, ref, prov, mv, tpm>>

\* R = x.copy(): a new instance
Copy(x) ==
    /\ Usable(x)
    /\ mat' = [mat EXCEPT !["R"] = copy(mat[x], nextId)]
    /\ ref' = [ref EXCEPT !["R"] = ref[x]]
    /\ sol' = [sol EXCEPT !.ncalls["R"] = 0, !.nbuilt["R"] = 0, !.stamp["R"] = EmptyDict]
    /\ last' = Call("copy", x, "-", Zero, "none", FALSE)
    /\ nextId' = nextId + 1
    /\ nops' = nops + 1
    /\ UNCHANGED <<prov, mv, tpm>>

\* x[k] = val (SparseMatrix.__setitem__)
SetItem(x, k, val) ==
    /\ Usable(x)
    /\ mat' = [mat EXCEPT ![x].d = [j \in DOMAIN mat[x].d \cup {k} |->
                                       IF j = k THEN val ELSE mat[x].d[j]]]
    /\ ref' = [ref EXCEPT ![x] = DenseOrUndef(mat'[x])]
    /\ last' = Call("setitem", x, "-", Zero, "none", FALSE)
    /\ nextId' = nextId + 1
    /\ nops' = nops + 1
    /\ UNCHANGED <<prov, mv, sol, tpm>>

\* del x[k] (SparseMatrix.__delitem__)
DelItem(x, k) ==
    /\ Usable(x)
    /\ LET stored == k \in DOMAIN mat[x].d
       IN  /\ mat' = IF stored
                     THEN [mat EXCEPT ![x].d = [j \in DOMAIN mat[x].d \ {k} |-> mat[x].d[j]]]
                     ELSE mat
           /\ last' = Call("delitem", x, "-", Zero,
                           IF stored THEN "none" ELSE "KeyError", FALSE)
    /\ ref' = [ref EXCEPT ![x] = DenseOrUndef(mat'[x])]
    /\ nops' = nops + 1
    /\ UNCHANGED <<nextId, prov, mv, sol, tpm>>

RLess(x, y) == x[1] * y[2] < y[1] * x[2]

RECURSIVE SumSq(_, _)
SumSq(v, n) == IF n = 0 THEN Zero ELSE RAdd(RMul(v[n], v[n]), SumSq(v, n - 1))

\* The keys clean_diagonals deletes: abs(np.linalg.norm(val))/relmax < reltol
\* with relmax = abs(self * ones).max() / shape[1], or 1 when that is 0;
\* compared as squares.
clean_keys(self) ==
    LET M == self.shape[2]
        D == Dense(self)
        a == [i \in 1..self.shape[1] |-> SumSeq(D[i], M)]
        sq == { RMul(a[i], a[i]) : i \in 1..self.shape[1] }
        top == CHOOSE t \in sq : \A u \in sq : ~RLess(t, u)
        relmax2 == IF top = Zero THEN One ELSE RDiv(top, <<M * M, 1>>)
    IN  { k \in DOMAIN self.d :
            AbsLtTol(RDiv(SumSq(self.d[k].v, Len(self.d[k].v)), relmax2), 2 * TolClean) }

\* SparseMatrix.clean_diagonals
clean_diagonals(self) ==
    [self EXCEPT !.d = [j \in DOMAIN self.d \ clean_keys(self) |-> self.d[j]]]

\* x.clean_diagonals()
CleanDiagonals(x) ==
    /\ Usable(x)
    /\ mat' = [mat EXCEPT ![x] = clean_diagonals(mat[x])]
    /\ ref' = [ref EXCEPT ![x] = DenseOrUndef(mat'[x])]
    /\ last' = Call("clean_diagonals", x, "-", Zero, "none", FALSE)
    /\ nops' = nops + 1
    /\ UNCHANGED <<nextId, prov, mv, sol, tpm>>

NextCache ==
    /\ nops < MaxCalls
    /\ \/ \E x \in {"A", "R"} : Solve(x)
       \/ BlockSolve
       \/ Copy("A")
       \/ \E k \in {-2, 1} : SetItem("A", k, CacheArr(k, One, nextId))
       \/ \E k \in {-2, 0} : DelItem("A", k)
       \/ CleanDiagonals("A")
       \/ IAdd("A", "B")
       \/ ISub("A", "B")

SpecCache == InitCache /\ [][NextCache]_vars

\* C12: on every instance the solver is constructed exactly once, by the
\* first solve call, and every later solve call uses that object; no two
\* instances hold the same solver object, and an instance that has not
\* been solved on (a copy among them) holds no solver.
C12_SolverBuiltOnce ==
    sol.state = "cache" =>
      /\ \A x \in Instances :
            /\ sol.ncalls[x] = 0 => sol.nbuilt[x] = 0
            /\ sol.ncalls[x] >= 1 => sol.nbuilt[x] = 1
      /\ \A x \in {"A", "R"} : sol.ncalls[x] = 0 => mat[x].solver = NoSolver
      /\ sol.ncalls["K"] = 0 => sol.block.solver = NoSolver
      /\ (mat["A"].solver # NoSolver => mat["A"].solver.id # mat["R"].solver.id)
      /\ (sol.block.solver # NoSolver =>
             sol.block.solver.id \notin {mat["A"].solver.id, mat["R"].solver.id})
      /\ (last.op = "solve" /\ last.x \in {"A", "R"} /\ last.err = "none")
             => sol.log.used = mat[last.x].solver

\* C13: a solve call that follows a change of the stored diagonals (+=, -=,
\* setting or deleting a diagonal, clean_diagonals) uses a solver selected
\* and constructed from the diagonals the matrix has at that call.
C13_SolverFollowsDiagonals ==
    (sol.state = "cache" /\ last.op = "solve" /\ last.x \in {"A", "R"} /\ last.err = "none")
    => /\ sol.log.used.cls \in get_solver(mat[last.x])
       /\ sol.stamp[last.x] = mat[last.x].d

(***************************************************************************)
(* TPMatrix.  Axes are numbered from 1 (axis a here is axis a - 1 of the   *)
(* source).  An array of D dimensions is a record [shape, v], v a function *)
(* of the index tuples; a TensorProductSpace is a record [N, naxes, sl,    *)
(* procs]: the size of every axis, the list of its non-diagonal axes, the  *)
(* number of active coefficients of every axis (the slice() of its bases)  *)
(* and the number of processes every axis of the aligned pencil is         *)
(* partitioned over.  The space runs on one process unless procs says      *)
(* otherwise, so local_slice() is the whole of every axis.                 *)
(***************************************************************************)
TpDim == 2

Idx(shape) ==
    IF Len(shape) = 1 THEN { <<i>> : i \in 1..shape[1] }
    ELSE { <<i, j>> : i \in 1..shape[1], j \in 1..shape[2] }

NdArray(shape, f(_)) == [shape |-> shape, v |-> [x \in Idx(shape) |-> f(x)]]

\* Element x of array a broadcast to a larger shape
At(a, x) == a.v[[k \in 1..Len(x) |-> IF a.shape[k] = 1 THEN 1 ELSE x[k]]]

BroadcastShape(a, b) == [k \in 1..Len(a.shape) |-> Max(a.shape[k], b.shape[k])]

\* a * b, a + b and a - b of numpy on arrays of the same number of
\* dimensions, every axis equal or 1 in one of them
ArrMul(a, b) == NdArray(BroadcastShape(a, b), LAMBDA x : RMul(At(a, x), At(b, x)))
ArrAdd(a, b) == NdArray(BroadcastShape(a, b), LAMBDA x : RAdd(At(a, x), At(b, x)))
ArrSub(a, b) == NdArray(BroadcastShape(a, b), LAMBDA x : RSub(At(a, x), At(b, x)))

UnitShape(D) == [k \in 1..D |-> 1]

\* space[axis].broadcast_to_ndims(x): the one-dimensional x laid along axis
broadcast_to_ndims(space, axis, x) ==
    NdArray([k \in 1..Len(space.N) |-> IF k = axis THEN Len(x) ELSE 1],
            LAMBDA i : x[i[axis]])

\* TPMatrix.__init__
TPMatrix(mats, space, scale, global_index) ==
    [mats |-> mats, space |-> space, scale |-> scale, pmat |-> <<"int", 1>>,
     naxes |-> space.naxes, global_index |-> global_index, issimplified |-> FALSE]

Axes(space) == 1..Len(space.N)
NonDiagonal(space) == { space.naxes[k] : k \in 1..Len(space.naxes) }

\* The factor a diagonal axis puts into the scale array in get_simplified
\* and simplify_diagonal_matrices: d = mat[0], and only for an array d the
\* product d*mat.scale, broadcast along the axis
DiagonalFactor(self, axis) ==
    LET m == self.mats[axis]
        d == m.d[0]
    IN  IF d.nd > 0
        THEN broadcast_to_ndims(self.space, axis,
                                [j \in 1..Len(d.v) |-> RMul(d.v[j], m.scale)])
        ELSE NdArray(UnitShape(Len(self.space.N)), LAMBDA x : d.v[1])

RECURSIVE ScaleTimesFactors(_, _, _)
ScaleTimesFactors(self, scale, axes) ==
    IF axes = {} THEN scale
    ELSE LET a == CHOOSE x \in axes : \A y \in axes : x <= y
         IN  ScaleTimesFactors(self, ArrMul(scale, DiagonalFactor(self, a)), axes \ {a})

\* The pmat link of a simplified TPMatrix
LinkPmat(mats, naxes) ==
    IF Len(naxes) = 1 THEN <<"mat", mats[naxes[1]]>>
    ELSE IF Len(naxes) = 2 THEN <<"mats", mats>>
    ELSE <<"int", 1>>

\* TPMatrix.get_simplified
get_simplified_absorbing(self) ==
    LET diagonal_axes == Axes(self.space) \ NonDiagonal(self.space)
        mats == [a \in Axes(self.space) |->
                   IF a \in diagonal_axes THEN Identity(self.mats[a].shape, One)
                   ELSE self.mats[a]]
        scale == ScaleTimesFactors(self, self.scale, diagonal_axes)
    IN  [mats |-> mats, space |-> self.space, scale |-> scale,
         pmat |-> LinkPmat(mats, self.naxes), naxes |-> self.naxes,
         global_index |-> self.global_index, issimplified |-> TRUE]

get_simplified(self) ==
    LET diagonal_axes == Axes(self.space) \ NonDiagonal(self.space)
    IN  IF diagonal_axes = {} \/ self.issimplified THEN self
        ELSE get_simplified_absorbing(self)

\* The operator a TPMatrix stands for: entry (x, y) of the Kronecker product
\* of its per-axis matrices (each with its own scale) times the scale array
TPEntry(T, x, y) ==
    LET f == [a \in 1..Len(T.mats) |-> Dense(T.mats[a])[x[a]][y[a]]]
        kron == IF Len(T.mats) = 1 THEN f[1] ELSE RMul(f[1], f[2])
    IN  RMul(At(T.scale, x), kron)

TPDense(T) ==
    LET I == Idx(T.space.N)
    IN  [x \in I |-> [y \in I |-> TPEntry(T, x, y)]]

\* SparseMatrix.matvec(v, c, format, axis) on an array of D dimensions: the
\* one-dimensional product along every line of the axis
AxisMatvec(m, v, format, axis) ==
    LET Line(x) == [i \in 1..v.shape[axis] |-> v.v[[x EXCEPT ![axis] = i]]]
        out == [x \in Idx(v.shape) |-> matvec(m, Line(x), format)]
    IN  [err |-> IF \E x \in Idx(v.shape) : out[x].err # "none" THEN "ValueError" ELSE "none",
         c |-> NdArray(v.shape, LAMBDA x : out[x].c[x[axis]])]

\* TPMatrix.__eq__ that compares the scale arrays as well
TPMatrix__eq__scale(self, a) ==
    /\ self.global_index = a.global_index
    /\ self.scale = a.scale
    /\ \A k \in 1..Min(Len(self.mats), Len(a.mats)) :
          /\ get_key(self.mats[k]) = get_key(a.mats[k])
          /\ PyEq(self.mats[k], a.mats[k])

\* TPMatrix.__eq__
TPMatrix__eq__(self, a) ==
    /\ self.global_index = a.global_index
    /\ \A k \in 1..Min(Len(self.mats), Len(a.mats)) :
          /\ get_key(self.mats[k]) = get_key(a.mats[k])
          /\ PyEq(self.mats[k], a.mats[k])

NoTP == [mats |-> << >>]

\* TPMatrix.__add__, __sub__ (a new TPMatrix f) and __iadd__, __isub__
\* (self changed): Outcome with the operands after the call
TPMatrix__add__(self, a) ==
    IF ~TPMatrix__eq__(self, a) THEN Outcome("AssertionError", NoTP, self, a)
    ELSE Outcome("none",
                 TPMatrix(self.mats, self.space, ArrAdd(self.scale, a.scale), self.global_index),
                 self, a)

TPMatrix__sub__(self, a) ==
    IF ~TPMatrix__eq__(self, a) THEN Outcome("AssertionError", NoTP, self, a)
    ELSE Outcome("none",
                 TPMatrix(self.mats, self.space, ArrSub(self.scale, a.scale), self.global_index),
                 self, a)

TPMatrix__iadd__(self, a) ==
    IF ~TPMatrix__eq__(self, a) THEN Outcome("AssertionError", NoTP, self, a)
    ELSE LET r == [self EXCEPT !.scale = ArrAdd(self.scale, a.scale)]
         IN  Outcome("none", r, r, a)

TPMatrix__isub__(self, a) ==
    IF ~TPMatrix__eq__(self, a) THEN Outcome("AssertionError", NoTP, self, a)
    ELSE LET r == [self EXCEPT !.scale = ArrSub(self.scale, a.scale)]
         IN  Outcome("none", r, r, a)

\* get_simplified_tpmatrices that keeps every simplified term
KeepAll(B, A, k) == B \o SubSeq(A, k, Len(A))

\* The loop of get_simplified_tpmatrices over A[k..]: B is the list built
\* so far.  An entry of a list is [T, obj]: the TPMatrix and the position
\* in tpmats of the object it is (get_simplified returns self for a term
\* with no diagonal axes), 0 for an object made by get_simplified.
RECURSIVE MergeEqual(_, _, _)
MergeEqual(B, A, k) ==
    IF k > Len(A) THEN B
    ELSE LET a == A[k]
             found == \E j \in 1..Len(B) : TPMatrix__eq__(a.T, B[j].T)
             added == [j \in 1..Len(B) |->
                         IF TPMatrix__eq__(a.T, B[j].T)
                         THEN [B[j] EXCEPT !.T = TPMatrix__iadd__(B[j].T, a.T).self]
                         ELSE B[j]]
         IN  MergeEqual(IF found THEN added ELSE Append(B, a), A, k + 1)

\* get_simplified_tpmatrices: the list returned and the list passed in as
\* the call leaves it
get_simplified_tpmatrices(tpmats) ==
    LET A == [i \in 1..Len(tpmats) |->
                LET S == get_simplified(tpmats[i])
                IN  [T |-> S, obj |-> IF S = tpmats[i] THEN i ELSE 0]]
        B == MergeEqual(<<A[1]>>, A, 2)
        After(i) == IF \E j \in 1..Len(B) : B[j].obj = i
                    THEN B[CHOOSE j \in 1..Len(B) : B[j].obj = i].T
                    ELSE tpmats[i]
    IN  [B |-> [j \in 1..Len(B) |-> B[j].T],
         tpmats |-> [i \in 1..Len(tpmats) |-> After(i)]]

\* Floating point values that are not finite: 1/0 and 0*inf
Inf == <<1, 0>>
NaN == <<0, 0>>
IsFinite(x) == x[2] # 0
FMul(x, y) ==
    IF IsFinite(x) /\ IsFinite(y) THEN RMul(x, y)
    ELSE IF x[1] = 0 \/ y[1] = 0 THEN NaN ELSE Inf
Reciprocal(x) == IF x[1] = 0 THEN Inf ELSE RDiv(One, x)

\* d left as the division made it
FiniteOrSelf(d) == d

\* np.where(np.isfinite(d), d, 0) of TPMatrix.solve
FiniteOrZero(d) == IF IsFinite(d) THEN d ELSE Zero

\* TPMatrix.solve(b, u) for a TPMatrix with no non-diagonal axes:
\* u[sl] = b[sl] * d[sl], sl the slices of the active coefficients
TPMatrix_solve(self, b, u) ==
    LET tpmat == get_simplified(self)
        sl == tpmat.space.sl
        Active(x) == \A a \in 1..Len(x) : x[a] <= sl[a]
        d(x) == FiniteOrZero(Reciprocal(At(tpmat.scale, x)))
    IN  NdArray(u.shape, LAMBDA x : IF Active(x) THEN FMul(b.v[x], d(x)) ELSE u.v[x])

\* TPMatrix.solve(b, u, constraints) for a TPMatrix with no non-diagonal
\* axes and a non-empty tuple of constraints (row, val): the assertion on the
\* first constraint, then the same division
TPMatrix_solve_constraints(self, b, u, constraints) ==
    IF constraints[1] # <<0, 0>> THEN [err |-> "AssertionError", u |-> u]
    ELSE [err |-> "none", u |-> TPMatrix_solve(self, b, u)]

\* TPMatrix.matvec(v, c, format) with fewer than two non-diagonal axes
TPMatrix_matvec(self, v, c, format) ==
    LET tpmat == get_simplified(self)
        filled == NdArray(c.shape, LAMBDA x : Zero)
    IN  IF Len(tpmat.naxes) = 0
        THEN [err |-> "none", c |-> ArrMul(tpmat.scale, v)]
        ELSE IF tpmat.pmat[1] # "mat"
        THEN [err |-> "AttributeError", c |-> filled]
        ELSE LET r == AxisMatvec(tpmat.pmat[2], v, format, tpmat.naxes[1])
             IN  IF r.err # "none" THEN [err |-> r.err, c |-> filled]
                 ELSE [err |-> "none", c |-> ArrMul(r.c, tpmat.scale)]

(***************************************************************************)
(* The tensor-product harness: a list of two TPMatrix terms on one space,  *)
(* an input array v and an output array c, and one call on them.           *)
(***************************************************************************)
Space(N, naxes, sl, aligned, procs) ==
    [N |-> N, naxes |-> naxes, sl |-> sl, aligned |-> aligned, procs |-> procs]

TpSpaces ==
    LET n == TpDim
    IN  { Space(<<n>>, << >>, <<k>>, 1, 1) : k \in {n - 1, n} }
        \cup { Space(<<n>>, <<1>>, <<n>>, 1, 1) }
        \cup { Space(<<n, n>>, << >>, <<n, n - 1>>, 1, 1) }
        \cup { Space(<<n, n>>, <<a>>, <<n, n>>, a, 1) : a \in {1, 2} }
        \cup { Space(<<n, n>>, <<1, 2>>, <<n, n>>, a, p) : a \in {1, 2}, p \in {1, 2} }

\* Matrices of a diagonal axis: the main diagonal as a number or an array,
\* with a scale of their own
DiagonalAxisMats ==
    { SparseMatrix([k \in {0} |-> Num(<<2, 1>>)], <<TpDim, TpDim>>, One),
      SparseMatrix([k \in {0} |-> Num(<<2, 1>>)], <<TpDim, TpDim>>, <<2, 1>>),
      SparseMatrix([k \in {0} |-> Arr([j \in 1..TpDim |-> <<j - 1, 1>>], <<1, 0>>)],
                   <<TpDim, TpDim>>, <<2, 1>>) }

\* Matrices of a non-diagonal axis
BandedAxisMats ==
    LET d == [k \in {0, 1} |-> Arr(Ones(DiagLen(k, TpDim, TpDim)), <<2, k>>)]
    IN  { SpectralMatrix(d, "T0", <<TpDim, TpDim>>, One),
          SpectralMatrix(d, "T0", <<TpDim, TpDim>>, <<2, 1>>),
          SparseMatrix(d, <<TpDim, TpDim>>, One) }

AxisMats(space, a) ==
    IF a \in NonDiagonal(space) THEN BandedAxisMats ELSE DiagonalAxisMats

MatLists(space) ==
    IF Len(space.N) = 1 THEN { <<m>> : m \in AxisMats(space, 1) }
    ELSE { <<m1, m2>> : m1 \in AxisMats(space, 1), m2 \in AxisMats(space, 2) }

\* Scale arrays: shape 1 along every axis, or the size of the axis along
\* the diagonal axes with a zero in the first place
TpScales(space) ==
    LET D == Len(space.N)
        full == [a \in 1..D |-> IF a \in NonDiagonal(space) THEN 1 ELSE space.N[a]]
    IN  { NdArray(UnitShape(D), LAMBDA x : <<3, 1>>),
          NdArray(full, LAMBDA x : IF \A a \in 1..D : x[a] = 1 THEN Zero ELSE <<x[1], 1>>) }

TpArray(space, junk) ==
    NdArray(space.N, LAMBDA x : IF junk THEN Junk ELSE <<x[1] + 2 * x[Len(x)], 1>>)

NoOut == [op |-> "none"]
NoRun == [i |-> 0]

InitTP ==
    /\ \E space \in TpSpaces :
       \E m1 \in MatLists(space) :
       \E m2 \in IF Len(space.naxes) = 2 THEN {m1} ELSE MatLists(space) :
       \E s1 \in TpScales(space), s2 \in {NdArray(UnitShape(Len(space.N)), LAMBDA x : One)},
          g2 \in {<<0, 0>>, <<0, 1>>} :
          tpm = [state |-> "ready",
                 terms |-> <<TPMatrix(m1, space, s1, <<0, 0>>), TPMatrix(m2, space, s2, g2)>>,
                 v |-> TpArray(space, FALSE), c |-> TpArray(space, TRUE),
                 out |-> NoOut, steps |-> << >>, run |-> NoRun]
    /\ mat = [r \in Regs |-> NoMat]
    /\ nextId = 3
    /\ nops = 0
    /\ last = NoCall
    /\ ref = [r \in Regs |-> Undef]
    /\ prov = NoProv
    /\ mv = mvIdle
    /\ sol = solIdle

TPDone(out) ==
    /\ tpm.state = "ready"
    /\ tpm' = [tpm EXCEPT !.state = "done", !.out = out]
    /\ UNCHANGED <<algVars, mv, sol>>

\* S = terms[i].get_simplified()
GetSimplified(i) ==
    TPDone([op |-> "get_simplified", i |-> i, S |-> get_simplified(tpm.terms[i])])

\* terms[i] == terms[j]
TPEq(i, j) ==
    TPDone([op |-> "eq", i |-> i, j |-> j,
            val |-> TPMatrix__eq__(tpm.terms[i], tpm.terms[j])])

\* The output array a call is given: what the harness holds, or zeros
OutputArrays == { tpm.c, NdArray(tpm.c.shape, LAMBDA x : Zero) }

\* c = terms[i].matvec(v, c, format), fewer than two non-diagonal axes
TPMatvec(i, format, c) ==
    /\ Len(tpm.terms[i].naxes) < 2
    /\ LET r == TPMatrix_matvec(tpm.terms[i], tpm.v, c, format)
       IN  /\ tpm.state = "ready"
           /\ tpm' = [tpm EXCEPT !.state = "done", !.c = r.c,
                                 !.out = [op |-> "matvec", i |-> i, format |-> format,
                                          err |-> r.err, c |-> r.c, c0 |-> c]]
    /\ UNCHANGED <<algVars, mv, sol>>

\* u = terms[i].solve(b, u) with b = v and u = c, no non-diagonal axes
TPSolve(i, u) ==
    /\ Len(tpm.terms[i].naxes) = 0
    /\ TPDone([op |-> "solve", i |-> i, u0 |-> u,
               u |-> TPMatrix_solve(tpm.terms[i], tpm.v, u)])

\* The constraints (row, val) passed to solve
Constraints == { <<row, val>> : row \in {0, 1}, val \in {0, 1} }

\* u = terms[i].solve(b, u, constraints=(con,)), no non-diagonal axes
TPSolveConstrained(i, u, con) ==
    /\ Len(tpm.terms[i].naxes) = 0
    /\ LET r == TPMatrix_solve_constraints(tpm.terms[i], tpm.v, u, <<con>>)
       IN  TPDone([op |-> "solve_constrained", i |-> i, con |-> con, u0 |-> u,
                   err |-> r.err, u |-> r.u])

\* B = get_simplified_tpmatrices(terms)
Simplify ==
    LET r == get_simplified_tpmatrices(tpm.terms)
    IN  /\ tpm.state = "ready"
        /\ tpm' = [tpm EXCEPT !.state = "done", !.terms = r.tpmats,
                              !.out = [op |-> "simplify", B |-> r.B, terms0 |-> tpm.terms]]
        /\ UNCHANGED <<algVars, mv, sol>>

TPArithmetic(op, self, a) ==
    CASE op = "add" -> TPMatrix__add__(self, a)
      [] op = "sub" -> TPMatrix__sub__(self, a)
      [] op = "iadd" -> TPMatrix__iadd__(self, a)
      [] op = "isub" -> TPMatrix__isub__(self, a)

\* terms[1] + terms[2], terms[1] - terms[2], terms[1] += terms[2],
\* terms[1] -= terms[2]
TPArith(op) ==
    LET r == TPArithmetic(op, tpm.terms[1], tpm.terms[2])
    IN  /\ tpm.state = "ready"
        /\ tpm' = [tpm EXCEPT !.state = "done", !.terms = <<r.self, r.d>>,
                              !.out = [op |-> op, err |-> r.err, f |-> r.f,
                                       terms0 |-> tpm.terms]]
        /\ UNCHANGED <<algVars, mv, sol>>

(***************************************************************************)
(* TPMatrix.matvec with two non-diagonal axes, one statement at a time.    *)
(* The state of tpm names the statement to run next.                       *)
(***************************************************************************)
\* assert subcomms[axis] == 1
AlignedAlone(space) == space.procs = 1

\* The statements in another order: the second matvec before the forward
\* transfer
AfterStepEarlyRead(step) ==
    CASE step = "assert" -> "matvec_aligned"
      [] step = "matvec_aligned" -> "matvec_second"
      [] step = "matvec_second" -> "forward"
      [] step = "forward" -> "backward"
      [] step = "backward" -> "scale"
      [] step = "scale" -> "done"

\* The statement that follows a statement of the two-axis branch
AfterStep(step) ==
    CASE step = "assert" -> "matvec_aligned"
      [] step = "matvec_aligned" -> "forward"
      [] step = "forward" -> "matvec_second"
      [] step = "matvec_second" -> "backward"
      [] step = "backward" -> "scale"
      [] step = "scale" -> "done"

ZerosLike(a) == NdArray(a.shape, LAMBDA x : Zero)

\* tpmat = self.get_simplified(); c.fill(0); the pencil of the space and
\* the assertion on it; cB and cC = np.zeros(...)
TPMatvecBegin(i, format, c0) ==
    /\ tpm.state = "ready"
    /\ Len(tpm.terms[i].naxes) = 2
    /\ LET tpmat == get_simplified(tpm.terms[i])
           axis == tpmat.space.aligned
           second_axis == CHOOSE a \in NonDiagonal(tpmat.space) : a # axis
           c == ZerosLike(c0)
       IN  IF ~AlignedAlone(tpmat.space)
           THEN tpm' = [tpm EXCEPT !.state = "done", !.c = c,
                                   !.out = [op |-> "matvec2", i |-> i, err |-> "AssertionError"]]
           ELSE tpm' = [tpm EXCEPT !.state = AfterStep("assert"), !.c = c,
                                   !.run = [i |-> i, format |-> format, tpmat |-> tpmat,
                                            axis |-> axis, second_axis |-> second_axis,
                                            cB |-> c, cC |-> c]]
    /\ UNCHANGED <<algVars, mv, sol>>

TPStep(step, c, cB, cC) ==
    /\ tpm.state = step
    /\ tpm' = [tpm EXCEPT !.state = AfterStep(step), !.c = c, !.run.cB = cB, !.run.cC = cC,
                          !.steps = Append(@, step),
                          !.out = IF AfterStep(step) = "done"
                                  THEN [op |-> "matvec2", i |-> tpm.run.i, err |-> "none"]
                                  ELSE @]
    /\ UNCHANGED <<algVars, mv, sol>>

\* c = bb.matvec(v, c, format=format, axis=axis)
FirstMatvec ==
    /\ tpm.state = "matvec_aligned"
    /\ TPStep("matvec_aligned",
              AxisMatvec(tpm.run.tpmat.mats[tpm.run.axis], tpm.v, tpm.run.format,
                         tpm.run.axis).c,
              tpm.run.cB, tpm.run.cC)

\* transAB.forward(c, cB)
ForwardTransfer ==
    /\ tpm.state = "forward"
    /\ TPStep("forward", tpm.c, tpm.c, tpm.run.cC)

\* cC = bb.matvec(cB, cC, format=format, axis=second_axis)
SecondMatvec ==
    /\ tpm.state = "matvec_second"
    /\ TPStep("matvec_second", tpm.c, tpm.run.cB,
              AxisMatvec(tpm.run.tpmat.mats[tpm.run.second_axis], tpm.run.cB,
                         tpm.run.format, tpm.run.second_axis).c)

\* transAB.backward(cC, c)
BackwardTransfer ==
    /\ tpm.state = "backward"
    /\ TPStep("backward", tpm.run.cC, tpm.run.cB, tpm.run.cC)

\* c *= tpmat.scale
ScaleResult ==
    /\ tpm.state = "scale"
    /\ TPStep("scale", ArrMul(tpm.c, tpm.run.tpmat.scale), tpm.run.cB, tpm.run.cC)

NextTP ==
    \/ \E i \in {1, 2} : GetSimplified(i)
    \/ \E i \in {1, 2}, j \in {1, 2} : TPEq(i, j)
    \/ \E i \in {1, 2}, format \in MvFormats, c \in OutputArrays : TPMatvec(i, format, c)
    \/ \E i \in {1, 2}, u \in OutputArrays : TPSolve(i, u)
    \/ \E i \in {1, 2}, u \in OutputArrays, con \in Constraints : TPSolveConstrained(i, u, con)
    \/ Simplify
    \/ \E op \in {"add", "sub", "iadd", "isub"} : TPArith(op)
    \/ \E i \in {1, 2}, format \in MvFormats, c \in OutputArrays : TPMatvecBegin(i, format, c)
    \/ FirstMatvec
    \/ ForwardTransfer
    \/ SecondMatvec
    \/ BackwardTransfer
    \/ ScaleResult

SpecTP == InitTP /\ [][NextTP]_vars

\* C14: for every TPMatrix T the operator of T.get_simplified() (the
\* Kronecker product of its per-axis matrices times its scale array) is the
\* operator of T, also when a diagonal-axis matrix stores its diagonal as a
\* number and carries a scale other than 1.
C14_SimplifiedSameOperator ==
    tpm.out.op = "get_simplified" =>
        TPDense(tpm.out.S) = TPDense(tpm.terms[tpm.out.i])

\* The sum of the operators of a list of one or two TPMatrix terms
OperatorSum(Ts) ==
    LET I == Idx(Ts[1].space.N)
    IN  [x \in I |-> [y \in I |->
            IF Len(Ts) = 1 THEN TPEntry(Ts[1], x, y)
            ELSE RAdd(TPEntry(Ts[1], x, y), TPEntry(Ts[2], x, y))]]

\* The simplified input terms of the last get_simplified_tpmatrices call
SimplifiedInputs == [i \in 1..Len(tpm.out.terms0) |-> get_simplified(tpm.out.terms0[i])]

\* The sum of the scale arrays of the simplified inputs equal to b
ScaleSumOfEqual(b) ==
    LET S == SimplifiedInputs
        eq == { i \in 1..Len(S) : TPMatrix__eq__(S[i], b) }
        lo == CHOOSE i \in eq : \A k \in eq : i <= k
    IN  IF Cardinality(eq) = 1 THEN S[lo].scale ELSE ArrAdd(S[1].scale, S[2].scale)

\* C15: no two terms of the list get_simplified_tpmatrices returns compare
\* equal under TPMatrix.__eq__, and the scale array of each returned term is
\* the elementwise sum of the simplified scale arrays of the input terms
\* equal to it.
C15_OneRepresentativePerKey ==
    tpm.out.op = "simplify" =>
        LET B == tpm.out.B
        IN  /\ \A j \in 1..Len(B), k \in 1..Len(B) :
                  j # k => ~TPMatrix__eq__(B[j], B[k])
            /\ \A j \in 1..Len(B) :
                  /\ \E i \in 1..Len(SimplifiedInputs) : TPMatrix__eq__(SimplifiedInputs[i], B[j])
                  /\ B[j].scale = ScaleSumOfEqual(B[j])

\* C15 witness: two terms with different scale arrays were merged into one
C15_Witness ==
    /\ tpm.out.op = "simplify"
    /\ Len(tpm.out.B) = 1
    /\ SimplifiedInputs[1].scale # SimplifiedInputs[2].scale
    /\ tpm.out.B[1].scale = ArrAdd(SimplifiedInputs[1].scale, SimplifiedInputs[2].scale)

\* C16: the sum of the operators of the terms get_simplified_tpmatrices
\* returns is the sum of the operators of the input terms whenever it has
\* merged them, whatever scale factors their per-axis matrices carry (shown
\* on inputs that simplification alone leaves unchanged as operators).
C16_MergeKeepsSum ==
    ( /\ tpm.out.op = "simplify"
      /\ Len(tpm.out.B) < Len(tpm.out.terms0)
      /\ \A i \in 1..Len(tpm.out.terms0) :
            TPDense(SimplifiedInputs[i]) = TPDense(tpm.out.terms0[i]) )
    => OperatorSum(tpm.out.B) = OperatorSum(tpm.out.terms0)

\* Two per-axis matrices have the same numeric value for the comparison:
\* equal shapes, and compressed-row data (without the scale of the matrix)
\* of the same length that differ by less than 1e-8 in 2-norm
SameNumericValue(m0, m1) ==
    /\ m0.shape = m1.shape
    /\ LET d0 == CsrData(m0, FALSE)
           a0 == CsrData(m1, FALSE)
       IN  /\ Len(d0) = Len(a0)
           /\ AbsLtTol(SumSqDiff(d0, a0, Len(d0)), 2 * TolEq)

SameTerm(S, T) ==
    /\ S.global_index = T.global_index
    /\ \A k \in 1..Len(S.mats) :
          /\ get_key(S.mats[k]) = get_key(T.mats[k])
          /\ SameNumericValue(S.mats[k], T.mats[k])

\* C17: TPMatrix.__eq__(S, T) is true exactly when S and T have the same
\* global block index and on every axis matrices of the same structural key
\* and the same numeric value; the scale arrays are not compared.  S + T,
\* S - T, S += T and S -= T fail for unequal operands and leave both as they
\* were; for equal operands they add or subtract the scale arrays.
C17_EqualityAndArithmetic ==
    /\ tpm.out.op = "eq" =>
          (tpm.out.val <=> SameTerm(tpm.terms[tpm.out.i], tpm.terms[tpm.out.j]))
    /\ tpm.out.op \in {"add", "sub", "iadd", "isub"} =>
          LET S == tpm.out.terms0[1]
              T == tpm.out.terms0[2]
              scale == IF tpm.out.op \in {"add", "iadd"} THEN ArrAdd(S.scale, T.scale)
                       ELSE ArrSub(S.scale, T.scale)
          IN  IF ~SameTerm(S, T)
              THEN tpm.out.err = "AssertionError" /\ tpm.terms = tpm.out.terms0
              ELSE /\ tpm.out.err = "none"
                   /\ tpm.out.f = [S EXCEPT !.scale = scale]
                   /\ tpm.terms[2] = T
                   /\ tpm.terms[1] = IF tpm.out.op \in {"iadd", "isub"} THEN tpm.out.f ELSE S

\* C17 witness: two terms with different scale arrays compare equal
C17_Witness ==
    /\ tpm.out.op = "eq" /\ tpm.out.i = 1 /\ tpm.out.j = 2
    /\ tpm.out.val = TRUE
    /\ tpm.terms[1].scale # tpm.terms[2].scale

\* The product of a matrix with array v along one axis, entry by entry
AlongAxis(m, v, axis) ==
    NdArray(v.shape, LAMBDA x :
        SumSeq([j \in 1..m.shape[2] |-> RMul(Dense(m)[x[axis]][j], v.v[[x EXCEPT ![axis] = j]])],
               m.shape[2]))

\* C18: matvec of a TPMatrix with no non-diagonal axis returns scale * v;
\* with one non-diagonal axis (with or without diagonal axes, a
\* one-dimensional TPMatrix included) it returns the product of that axis's
\* matrix with v along the axis times the scale array; what c held before
\* the call does not matter.
C18_MatvecDispatch ==
    tpm.out.op = "matvec" =>
        LET tpmat == get_simplified(tpm.terms[tpm.out.i])
            naxes == tpmat.naxes
        IN  /\ tpm.out.err = "none"
            /\ tpm.out.c = IF Len(naxes) = 0 THEN ArrMul(tpmat.scale, tpm.v)
                           ELSE ArrMul(AlongAxis(tpmat.mats[naxes[1]], tpm.v, naxes[1]),
                                       tpmat.scale)

StepOrder == <<"matvec_aligned", "forward", "matvec_second", "backward", "scale">>

\* C19: matvec with two non-diagonal axes runs, in this order, the matvec
\* along the aligned axis, the forward transfer, the matvec along the second
\* axis, the backward transfer and the multiplication by the scale array;
\* the second matvec reads the data the forward transfer delivered; and when
\* the aligned axis is split over more than one process the call fails on
\* the assertion before any of these steps runs.
C19_TwoAxisStepOrder ==
    /\ \A k \in 1..Len(tpm.steps) : k <= Len(StepOrder) /\ tpm.steps[k] = StepOrder[k]
    /\ tpm.run # NoRun =>
          LET T == tpm.run.tpmat
              first == AlongAxis(T.mats[tpm.run.axis], tpm.v, tpm.run.axis)
              second == AlongAxis(T.mats[tpm.run.second_axis], first, tpm.run.second_axis)
          IN  /\ AlignedAlone(T.space)
              /\ tpm.run.axis = T.space.aligned
              /\ tpm.run.cB = IF Len(tpm.steps) >= 2 THEN first ELSE ZerosLike(tpm.v)
              /\ tpm.run.cC = IF Len(tpm.steps) >= 3 THEN second ELSE ZerosLike(tpm.v)
              /\ tpm.state = "done" => tpm.c = ArrMul(second, T.scale) /\ tpm.out.err = "none"
    /\ (tpm.out.op = "matvec2" /\ tpm.run = NoRun) =>
          /\ ~AlignedAlone(tpm.terms[tpm.out.i].space)
          /\ tpm.out.err = "AssertionError"
          /\ tpm.steps = << >>

\* C19 witness: a two-axis matvec has run all five steps
C19_Witness ==
    /\ tpm.state = "done" /\ tpm.out.op = "matvec2" /\ tpm.out.err = "none"
    /\ tpm.steps = StepOrder
    /\ tpm.c # ZerosLike(tpm.c)

\* C19 witness of the failing call: the aligned axis is split over two
\* processes and no step has run
C19_WitnessAssert ==
    /\ tpm.state = "done" /\ tpm.out.op = "matvec2" /\ tpm.out.err = "AssertionError"
    /\ tpm.steps = << >>

\* The indices of the active coefficients of the space of T
ActiveRange(T) == { x \in Idx(T.space.N) : \A a \in 1..Len(x) : x[a] <= T.space.sl[a] }

\* C20: solve of a TPMatrix with no non-diagonal axes sets u = b / scale at
\* every active index where the scale array is not zero and u = 0 at every
\* active index where it is zero, leaves the other entries of u alone, and
\* returns no inf and no NaN.
C20_SolveByScale ==
    tpm.out.op = "solve" =>
        LET T == get_simplified(tpm.terms[tpm.out.i])
            u == tpm.out.u
        IN  /\ \A x \in ActiveRange(T) :
                  u.v[x] = IF At(T.scale, x) = Zero THEN Zero
                           ELSE RDiv(tpm.v.v[x], At(T.scale, x))
            /\ \A x \in Idx(u.shape) \ ActiveRange(T) : u.v[x] = tpm.out.u0.v[x]
            /\ \A x \in Idx(u.shape) : IsFinite(u.v[x])

\* C20 witness: a solve over a scale array with a zero and a nonzero entry
\* in the active range, and an entry of u outside it
C20_Witness ==
    /\ tpm.out.op = "solve"
    /\ LET T == get_simplified(tpm.terms[tpm.out.i])
       IN  /\ \E x \in ActiveRange(T) : At(T.scale, x) = Zero /\ tpm.out.u.v[x] = Zero
           /\ \E x \in ActiveRange(T) : At(T.scale, x) # Zero /\ tpm.out.u.v[x] # Zero
           /\ \E x \in Idx(tpm.v.shape) \ ActiveRange(T) : tpm.out.u.v[x] = Junk

\* Degree of freedom i (counted from 0, last axis fastest) of an array
Dof(shape, i) ==
    IF Len(shape) = 1 THEN <<i + 1>>
    ELSE <<(i \div shape[2]) + 1, (i % shape[2]) + 1>>

\* C21: solve with a row constraint (i, v) returns a result whose degree of
\* freedom i is v, for every right-hand side and every scale array, on the
\* path of TPMatrix.solve with no non-diagonal axes.
C21_ConstraintEnforced ==
    tpm.out.op = "solve_constrained" =>
        /\ tpm.out.err = "none"
        /\ tpm.out.u.v[Dof(tpm.out.u.shape, tpm.out.con[1])] = <<tpm.out.con[2], 1>>

(***************************************************************************)
(* BlockMatrix and the functions on lists of TPMatrix terms, on objects.   *)
(* A heap is a sequence of TPMatrix values; an object is its index in the  *)
(* heap; a list is a sequence of objects.                                  *)
(***************************************************************************)
\* TPMatrix.get_simplified returns self
ReturnsSelf(T) == Axes(T.space) \ NonDiagonal(T.space) = {} \/ T.issimplified

\* tpmat.get_simplified() on object id: the heap after the call and the
\* object returned
get_simplified_obj(heap, id) ==
    IF ReturnsSelf(heap[id]) THEN [heap |-> heap, id |-> id]
    ELSE [heap |-> Append(heap, get_simplified_absorbing(heap[id])), id |-> Len(heap) + 1]

\* A = [tpmat.get_simplified() for tpmat in tpmats[k..]]
RECURSIVE SimplifyFrom(_, _, _, _)
SimplifyFrom(heap, tpmats, k, A) ==
    IF k > Len(tpmats) THEN [heap |-> heap, A |-> A]
    ELSE CHOOSE y \in { SimplifyFrom(r.heap, tpmats, k + 1, Append(A, r.id)) :
                        r \in {get_simplified_obj(heap, tpmats[k])} } : TRUE

\* The loop that finds no equal term
AddIntoNever(heap, a, B, j, found) == [heap |-> heap, found |-> FALSE]

\* for b in B[j..]: if a == b: b += a; found = True
RECURSIVE AddInto(_, _, _, _, _)
AddInto(heap, a, B, j, found) ==
    IF j > Len(B) THEN [heap |-> heap, found |-> found]
    ELSE IF TPMatrix__eq__(heap[a], heap[B[j]])
    THEN CHOOSE y \in { AddInto(h, a, B, j + 1, TRUE) :
                        h \in {[heap EXCEPT ![B[j]] =
                                   TPMatrix__iadd__(heap[B[j]], heap[a]).self]} } : TRUE
    ELSE AddInto(heap, a, B, j + 1, found)

\* The loop "for a in A[1:]" of get_simplified_tpmatrices from A[k]
RECURSIVE MergeLoop(_, _, _, _)
MergeLoop(heap, A, k, B) ==
    IF k > Len(A) THEN [heap |-> heap, B |-> B]
    ELSE CHOOSE y \in { MergeLoop(r.heap, A, k + 1, IF r.found THEN B ELSE Append(B, A[k])) :
                        r \in {AddInto(heap, A[k], B, 1, FALSE)} } : TRUE

\* get_simplified_tpmatrices on a non-empty list of objects
get_simplified_tpmatrices_obj(heap, tpmats) ==
    CHOOSE y \in { MergeLoop(s.heap, s.A, 2, <<s.A[1]>>) :
                   s \in {SimplifyFrom(heap, tpmats, 1, << >>)} } : TRUE

\* The cells of a BlockMatrix of dims (1, 2), row by row
Cells == <<<<0, 0>>, <<0, 1>>>>

\* self.mats = np.zeros(dims, dtype=int).tolist(): a cell is the integer 0
\* (the empty sequence here) until its first term arrives
EmptyBlock == [dims |-> <<1, 2>>, mats |-> [c \in {Cells[k] : k \in 1..Len(Cells)} |-> << >>]]

\* The body of the loop of BlockMatrix.__iadd__ for one term m
BlockMatrix__iadd__term(heap, self, m) ==
    LET ij == heap[m].global_index
        m0 == self.mats[ij]
        r == AddInto(heap, m, m0, 1, FALSE)
    IN  IF m0 = << >>
        THEN [heap |-> heap, self |-> [self EXCEPT !.mats[ij] = <<m>>]]
        ELSE [heap |-> r.heap,
              self |-> IF r.found THEN self ELSE [self EXCEPT !.mats[ij] = Append(m0, m)]]

\* BlockMatrix.__iadd__ from term tpmats[k] on: the heap and the BlockMatrix
\* after the loop
RECURSIVE BlockMatrix__iadd__(_, _, _, _)
BlockMatrix__iadd__(heap, self, tpmats, k) ==
    IF k > Len(tpmats) THEN [heap |-> heap, self |-> self]
    ELSE CHOOSE y \in { BlockMatrix__iadd__(st.heap, st.self, tpmats, k + 1) :
                        st \in {BlockMatrix__iadd__term(heap, self, tpmats[k])} } : TRUE

\* BlockMatrix(tpmats) for a list of TPMatrix objects
BlockMatrix__init__(heap, tpmats) ==
    IF tpmats = << >> THEN [err |-> "IndexError", heap |-> heap, self |-> EmptyBlock]
    ELSE CHOOSE y \in { [err |-> "none"] @@ BlockMatrix__iadd__(s.heap, EmptyBlock, s.B, 1) :
                        s \in {get_simplified_tpmatrices_obj(heap, tpmats)} } : TRUE

\* BlockMatrix.get_mats
get_mats(self) == self.mats[Cells[1]] \o self.mats[Cells[2]]

\* BlockMatrix.__add__
BlockMatrix__add__(heap, self, a) == BlockMatrix__init__(heap, get_mats(self) \o get_mats(a))

\* SpectralMatrix.is_bc_matrix: the trial basis is a boundary basis
BcBases == {"BC"}
is_bc_matrix(m) == m.cls = "SpectralMatrix" /\ m.basis \in BcBases

\* TPMatrix.is_bc_matrix
TPMatrix_is_bc_matrix(T) == \E k \in 1..Len(T.mats) : is_bc_matrix(T.mats[k])

\* list.remove(b): the list without its first entry that is b or equals b
ListRemove(heap, a, b) ==
    LET hits == { k \in 1..Len(a) : a[k] = b \/ TPMatrix__eq__(heap[a[k]], heap[b]) }
        k0 == CHOOSE k \in hits : \A j \in hits : k <= j
    IN  SubSeq(a, 1, k0 - 1) \o SubSeq(a, k0 + 1, Len(a))

\* extract_bc_matrices([a]) over the copy of a from entry k on: the list a
\* as the loop leaves it and bc_mats
RECURSIVE extract_bc_matrices(_, _, _, _, _)
extract_bc_matrices(heap, copy_a, k, a, bc_mats) ==
    IF k > Len(copy_a) THEN [a |-> a, bc_mats |-> bc_mats]
    ELSE LET b == copy_a[k]
         IN  IF TPMatrix_is_bc_matrix(heap[b])
             THEN CHOOSE y \in { extract_bc_matrices(heap, copy_a, k + 1, rest,
                                                     Append(bc_mats, b)) :
                                 rest \in {ListRemove(heap, a, b)} } : TRUE
             ELSE extract_bc_matrices(heap, copy_a, k + 1, a, bc_mats)

\* BlockMatrices(tpmats) for a list of TPMatrix objects
BlockMatrices(heap, tpmats) ==
    CHOOSE y \in {
        IF Len(e.bc_mats) = 0
        THEN [err |-> "AssertionError", heap |-> heap, tpmats |-> e.a,
              regular |-> EmptyBlock, boundary |-> EmptyBlock]
        ELSE CHOOSE z \in {
                 IF regular.err # "none"
                 THEN [err |-> regular.err, heap |-> heap, tpmats |-> e.a,
                       regular |-> EmptyBlock, boundary |-> EmptyBlock]
                 ELSE CHOOSE w \in {
                          [err |-> "none", heap |-> boundary.heap, tpmats |-> e.a,
                           regular |-> regular.self, boundary |-> boundary.self] :
                          boundary \in {BlockMatrix__init__(regular.heap, e.bc_mats)} } : TRUE :
                 regular \in {BlockMatrix__init__(heap, e.a)} } : TRUE :
        e \in {extract_bc_matrices(heap, tpmats, 1, tpmats, << >>)} } : TRUE

(***************************************************************************)
(* The block harness: three TPMatrix terms in a list, a BlockMatrix named  *)
(* M, and calls on them.                                                   *)
(***************************************************************************)
MaxBlockCalls == 2

BlockSpaces ==
    { Space(<<TpDim>>, <<1>>, <<TpDim>>, 1, 1),
      Space(<<TpDim, TpDim>>, <<1>>, <<TpDim, TpDim>>, 1, 1) }

BlockAxisMats ==
    LET d == [k \in {0, 1} |-> Arr(Ones(DiagLen(k, TpDim, TpDim)), <<2, k>>)]
    IN  { SpectralMatrix(d, "T0", <<TpDim, TpDim>>, One),
          SpectralMatrix(d, "T0", <<TpDim, TpDim>>, <<2, 1>>),
          SpectralMatrix(d, "BC", <<TpDim, TpDim>>, One) }

BlockDiagonalMats ==
    { SparseMatrix([k \in {0} |-> Num(<<2, 1>>)], <<TpDim, TpDim>>, One),
      SparseMatrix([k \in {0} |-> Arr([j \in 1..TpDim |-> <<j, 1>>], <<1, 0>>)],
                   <<TpDim, TpDim>>, <<2, 1>>) }

\* Term k of the list: its scale array holds the number k
BlockTerm(space, k, m, dm, ij) ==
    TPMatrix(IF Len(space.N) = 1 THEN <<m>> ELSE <<m, dm>>, space,
             NdArray(UnitShape(Len(space.N)), LAMBDA x : <<k, 1>>), ij)

NoBlock == [dims |-> <<0, 0>>]

InitBlock ==
    /\ \E space \in BlockSpaces :
       \E m \in [1..3 -> BlockAxisMats], ij \in [1..3 -> {Cells[1], Cells[2]}] :
       \E dm \in BlockDiagonalMats :
          tpm = [state |-> "block",
                 heap |-> [k \in 1..3 |->
                             BlockTerm(space, k, m[k],
                                       IF k = 2 THEN dm
                                       ELSE CHOOSE x \in BlockDiagonalMats : x.d[0].nd = 0,
                                       ij[k])],
                 terms |-> <<1, 2, 3>>, blk |-> NoBlock, M |-> "unbound",
                 out |-> NoOut, n |-> 0]
    /\ mat = [r \in Regs |-> NoMat]
    /\ nextId = 3
    /\ nops = 0
    /\ last = NoCall
    /\ ref = [r \in Regs |-> Undef]
    /\ prov = NoProv
    /\ mv = mvIdle
    /\ sol = solIdle

BlockCall(heap, terms, blk, M, out) ==
    /\ tpm.n < MaxBlockCalls
    /\ tpm' = [tpm EXCEPT !.heap = heap, !.terms = terms, !.blk = blk, !.M = M,
                          !.n = @ + 1,
                          !.out = out @@ [heap0 |-> tpm.heap, terms0 |-> tpm.terms,
                                          blk0 |-> tpm.blk]]
    /\ UNCHANGED <<algVars, mv, sol>>

\* M = BlockMatrix(terms)
Construct ==
    /\ tpm.terms # << >>
    /\ LET r == BlockMatrix__init__(tpm.heap, tpm.terms)
       IN  BlockCall(r.heap, tpm.terms, r.self, "block", [op |-> "construct"])

\* The lists accumulated into M: the whole list of terms or one of them
Accumulated ==
    IF tpm.terms = << >> THEN {}
    ELSE { tpm.terms } \cup { <<tpm.terms[k]>> : k \in 1..Len(tpm.terms) }

\* The statement M += a: M = M.__iadd__(a), and __iadd__ returns None
BlockIAdd(a) ==
    /\ tpm.M = "block"
    /\ LET r == BlockMatrix__iadd__(tpm.heap, tpm.blk, a, 1)
       IN  BlockCall(r.heap, tpm.terms, r.self, "None", [op |-> "iadd", a |-> a])

\* R = M + M
BlockAdd ==
    /\ tpm.M = "block"
    /\ LET r == BlockMatrix__add__(tpm.heap, tpm.blk, tpm.blk)
       IN  BlockCall(r.heap, tpm.terms, tpm.blk, tpm.M, [op |-> "add", R |-> r.self])

\* B = get_simplified_tpmatrices(terms)
SimplifyList ==
    /\ tpm.terms # << >>
    /\ LET r == get_simplified_tpmatrices_obj(tpm.heap, tpm.terms)
       IN  BlockCall(r.heap, tpm.terms, tpm.blk, tpm.M, [op |-> "simplify", B |-> r.B])

\* bc = extract_bc_matrices([terms])
ExtractBc ==
    LET r == extract_bc_matrices(tpm.heap, tpm.terms, 1, tpm.terms, << >>)
    IN  BlockCall(tpm.heap, r.a, tpm.blk, tpm.M, [op |-> "extract", bc |-> r.bc_mats])

\* regular, boundary = BlockMatrices(terms)
CallBlockMatrices ==
    LET r == BlockMatrices(tpm.heap, tpm.terms)
    IN  BlockCall(r.heap, r.tpmats, tpm.blk, tpm.M,
                  [op |-> "BlockMatrices", err |-> r.err, regular |-> r.regular,
                   boundary |-> r.boundary])

NextBlock ==
    \/ Construct
    \/ \E a \in Accumulated : BlockIAdd(a)
    \/ BlockAdd
    \/ SimplifyList
    \/ ExtractBc
    \/ CallBlockMatrices

SpecBlock == InitBlock /\ [][NextBlock]_vars

\* The sum of the scale arrays of the simplified terms ids[k..] of heap
\* that compare equal to T
RECURSIVE SimplifiedScaleSum(_, _, _, _)
SimplifiedScaleSum(heap, ids, k, T) ==
    IF k > Len(ids) THEN NdArray(T.scale.shape, LAMBDA x : Zero)
    ELSE LET S == get_simplified(heap[ids[k]])
             rest == SimplifiedScaleSum(heap, ids, k + 1, T)
         IN  IF TPMatrix__eq__(S, T) THEN ArrAdd(S.scale, rest) ELSE rest

\* C22: a BlockMatrix has the grid of (test components, trial components);
\* every term in cell (i, j) has global block index (i, j); no cell holds
\* two terms that compare equal; a term equal to one in its cell is merged
\* into it by adding the scale arrays, and any other term is appended.
C22_BlockGrid ==
    (tpm.state = "block" /\ tpm.blk # NoBlock) =>
        LET blk == tpm.blk
            heap == tpm.heap
        IN  /\ blk.dims = <<1, 2>>
            /\ DOMAIN blk.mats = { <<i, j>> : i \in 0..(blk.dims[1] - 1), j \in 0..(blk.dims[2] - 1) }
            /\ \A c \in DOMAIN blk.mats :
                  /\ \A k \in 1..Len(blk.mats[c]) : heap[blk.mats[c][k]].global_index = c
                  /\ \A j, k \in 1..Len(blk.mats[c]) :
                        j # k => ~TPMatrix__eq__(heap[blk.mats[c][j]], heap[blk.mats[c][k]])
            /\ tpm.out.op = "construct" =>
                  /\ \A k \in 1..Len(tpm.out.terms0) :
                        \E n \in 1..Len(get_mats(blk)) :
                           TPMatrix__eq__(get_simplified(tpm.out.heap0[tpm.out.terms0[k]]),
                                          heap[get_mats(blk)[n]])
                  /\ \A n \in 1..Len(get_mats(blk)) :
                        heap[get_mats(blk)[n]].scale =
                           SimplifiedScaleSum(tpm.out.heap0, tpm.out.terms0, 1,
                                              heap[get_mats(blk)[n]])
            /\ (tpm.out.op = "iadd" /\ Len(tpm.out.a) = 1) =>
                  LET m == tpm.out.a[1]
                      c == tpm.out.heap0[m].global_index
                      m0 == tpm.out.blk0.mats[c]
                      eq == { k \in 1..Len(m0) :
                                 TPMatrix__eq__(tpm.out.heap0[m], tpm.out.heap0[m0[k]]) }
                  IN  /\ blk.mats[c] = IF eq = {} THEN Append(m0, m) ELSE m0
                      /\ \A k \in eq :
                            heap[m0[k]].scale = ArrAdd(tpm.out.heap0[m0[k]].scale,
                                                       tpm.out.heap0[m].scale)
                      /\ \A d \in DOMAIN blk.mats \ {c} : blk.mats[d] = tpm.out.blk0.mats[d]

\* C22 witness: a term was accumulated into a cell that held a term equal
\* to it, and the cell kept its length
C22_Witness ==
    /\ tpm.state = "block" /\ tpm.out.op = "iadd" /\ Len(tpm.out.a) = 1
    /\ LET m == tpm.out.a[1]
           c == tpm.out.heap0[m].global_index
       IN  /\ tpm.blk.mats[c] = tpm.out.blk0.mats[c]
           /\ m \notin { tpm.blk.mats[c][k] : k \in 1..Len(tpm.blk.mats[c]) }
           /\ \E k \in 1..Len(tpm.blk.mats[c]) :
                 tpm.heap[tpm.blk.mats[c][k]].scale # tpm.out.heap0[tpm.blk.mats[c][k]].scale

\* The entries of a list of objects that are, or are not, boundary terms,
\* in the order of the list
RECURSIVE Side(_, _, _, _)
Side(heap, ids, k, bc) ==
    IF k > Len(ids) THEN << >>
    ELSE IF TPMatrix_is_bc_matrix(heap[ids[k]]) = bc
    THEN <<ids[k]>> \o Side(heap, ids, k + 1, bc)
    ELSE Side(heap, ids, k + 1, bc)

\* The terms of a BlockMatrix are the simplified terms of a list, one for one
HoldsExactly(heap, blk, heap0, ids) ==
    /\ Len(get_mats(blk)) = Len(ids)
    /\ \A k \in 1..Len(ids) :
          \E n \in 1..Len(get_mats(blk)) :
             /\ TPMatrix__eq__(get_simplified(heap0[ids[k]]), heap[get_mats(blk)[n]])
             /\ heap[get_mats(blk)[n]].scale = get_simplified(heap0[ids[k]]).scale

\* C23: extract_bc_matrices returns the boundary terms of the list in their
\* order and leaves the other terms in the list in their order; for a list
\* with a boundary term BlockMatrices returns a regular BlockMatrix holding
\* exactly the other terms and a boundary BlockMatrix holding exactly the
\* boundary terms, also when terms of the list compare equal.
C23_BoundaryPartition ==
    /\ (tpm.state = "block" /\ tpm.out.op = "extract") =>
          /\ tpm.out.bc = Side(tpm.heap, tpm.out.terms0, 1, TRUE)
          /\ tpm.terms = Side(tpm.heap, tpm.out.terms0, 1, FALSE)
    /\ ( /\ tpm.state = "block" /\ tpm.out.op = "BlockMatrices"
         /\ Side(tpm.out.heap0, tpm.out.terms0, 1, TRUE) # << >> ) =>
          /\ tpm.out.err = "none"
          /\ HoldsExactly(tpm.heap, tpm.out.boundary, tpm.out.heap0,
                          Side(tpm.out.heap0, tpm.out.terms0, 1, TRUE))
          /\ HoldsExactly(tpm.heap, tpm.out.regular, tpm.out.heap0,
                          Side(tpm.out.heap0, tpm.out.terms0, 1, FALSE))

\* C28: get_simplified_tpmatrices, the BlockMatrix constructor and
\* BlockMatrix.__add__ leave every TPMatrix that existed before the call
\* (scale array and per-axis matrices) and the contents of the BlockMatrix
\* operands as they were before the call.
C28_InputsUntouched ==
    (tpm.state = "block" /\ tpm.out.op \in {"simplify", "construct", "add"}) =>
        /\ \A id \in 1..Len(tpm.out.heap0) : tpm.heap[id] = tpm.out.heap0[id]
        /\ tpm.out.op = "add" => tpm.blk = tpm.out.blk0

\* C30: after the statement M += a the name M refers to the BlockMatrix
\* that accumulated the terms of a.
C30_IAddYieldsSelf ==
    (tpm.state = "block" /\ tpm.out.op = "iadd") => tpm.M = "block"

(***************************************************************************)
(* extract_diagonal_matrix.  The entries of the dense matrix are numbers   *)
(* c * 10^e with one digit c, written <<c, e>>, so that entries on both    *)
(* sides of the tolerances 1e-10 occur.                                    *)
(***************************************************************************)
TolAbs == 10
TolRel == 10

SciZero == <<0, 0>>
SciAbs(x) == <<Abs(x[1]), x[2]>>

\* x > y for x, y >= 0
SciGt(x, y) ==
    IF x[1] = 0 THEN FALSE
    ELSE IF y[1] = 0 THEN TRUE
    ELSE IF x[2] # y[2] THEN x[2] > y[2]
    ELSE x[1] > y[1]

\* abs(a).max() of a non-empty set of entries
SciAbsMax(S) ==
    LET A == { SciAbs(x) : x \in S }
    IN  CHOOSE t \in A : \A u \in A : ~SciGt(u, t)

\* M.diagonal(k) of an N x M matrix: entry n is M[n + max(0, -k), n + max(0, k)]
Diagonal(D, shape, k) ==
    [n \in 1..DiagLen(k, shape[1], shape[2]) |->
        D[<<n + (IF k < 0 THEN -k ELSE 0), n + (IF k > 0 THEN k ELSE 0)>>]]

SeqRange(q) == { q[n] : n \in 1..Len(q) }

\* abs(u).max()/relmax > reltol
RatioGtTol(top, relmax) ==
    IF relmax[1] = 0 THEN top[1] # 0
    ELSE SciGt(top, <<relmax[1], relmax[2] - TolRel>>)

\* abs(u).max() > abstol and abs(u).max()/relmax > reltol
Kept(u, relmax) ==
    /\ SciGt(SciAbsMax(SeqRange(u)), <<1, -TolAbs>>)
    /\ RatioGtTol(SciAbsMax(SeqRange(u)), relmax)

\* the test without the relative tolerance
extract_keys_abs(D, shape) ==
    { k \in (1 - shape[1])..(shape[2] - 1) :
        SciGt(SciAbsMax(SeqRange(Diagonal(D, shape, k))), <<1, -TolAbs>>) }

\* The offsets extract_diagonal_matrix stores: range(M.shape[1]) and
\* -i for i in range(1, M.shape[0])
extract_keys(D, shape) ==
    LET relmax == SciAbsMax({ D[x] : x \in DOMAIN D })
    IN  { i \in 0..(shape[2] - 1) : Kept(Diagonal(D, shape, i), relmax) }
        \cup { -i : i \in { j \in 1..(shape[1] - 1) : Kept(Diagonal(D, shape, -j), relmax) } }

\* extract_diagonal_matrix(M)
extract_diagonal_matrix(D, shape) ==
    SparseMatrix([k \in extract_keys(D, shape) |-> Arr(Diagonal(D, shape, k), <<3, k>>)],
                 shape, One)

ExtractShapes == { <<1, 1>>, <<1, 2>>, <<2, 1>>, <<2, 2>>, <<2, 3>>, <<3, 2>> }
ExtractEntries == { SciZero, <<1, -11>>, <<-1, 0>>, <<2, 10>> }

InitExtract ==
    /\ \E shape \in ExtractShapes :
       \E D \in [(1..shape[1]) \X (1..shape[2]) -> ExtractEntries] :
          tpm = [state |-> "dense", M |-> D, shape |-> shape, out |-> NoMat]
    /\ mat = [r \in Regs |-> NoMat]
    /\ nextId = 3
    /\ nops = 0
    /\ last = NoCall
    /\ ref = [r \in Regs |-> Undef]
    /\ prov = NoProv
    /\ mv = mvIdle
    /\ sol = solIdle

\* A = extract_diagonal_matrix(M)
Extract ==
    /\ tpm.state = "dense"
    /\ tpm' = [tpm EXCEPT !.state = "extracted",
                          !.out = extract_diagonal_matrix(tpm.M, tpm.shape)]
    /\ UNCHANGED <<algVars, mv, sol>>

NextExtract == Extract

SpecExtract == InitExtract /\ [][NextExtract]_vars

MaxDiagsCalls == 2

\* The entries of the matrix sp_diags builds, times scale when scaled
DiagsData(self, scaled) ==
    [x \in (1..self.shape[1]) \X (1..self.shape[2]) |->
        IF scaled THEN RMul(Entry(self, x[1], x[2]), self.scale)
        ELSE Entry(self, x[1], x[2])]

\* SparseMatrix.diags(format, scaled) on an object whose self._diags is the
\* object `stored`, `n` objects having been built so far: the assignment
\* self._diags = sp_diags(...) builds object n + 1, and self._diags*scale
\* is one more object.
diags(self, stored, format, scaled, n) ==
    [self   |-> [self EXCEPT !.diags = format],
     stored |-> n + 1,
     built  |-> TRUE,
     ret    |-> IF scaled THEN n + 2 ELSE n + 1,
     data   |-> DiagsData(self, scaled),
     n      |-> IF scaled THEN n + 2 ELSE n + 1]

DiagsFormats == {"csr", "dia"}

InitDiags ==
    /\ \E shape \in MvShapes :
       \E d \in MvDicts(shape) \ {EmptyDict}, s \in MvScales :
          tpm = [state |-> "diags", A |-> SparseMatrix(d, shape, s), stored |-> 0,
                 n |-> 0, calls |-> 0,
                 out |-> [format |-> "-", scaled |-> TRUE, built |-> FALSE, ret |-> 0,
                          data |-> << >>, format0 |-> "-", stored0 |-> 0]]
    /\ mat = [r \in Regs |-> NoMat]
    /\ nextId = 3
    /\ nops = 0
    /\ last = NoCall
    /\ ref = [r \in Regs |-> Undef]
    /\ prov = NoProv
    /\ mv = mvIdle
    /\ sol = solIdle

\* R = A.diags(format, scaled)
CallDiags(format, scaled) ==
    /\ tpm.state = "diags"
    /\ tpm.calls < MaxDiagsCalls
    /\ LET r == diags(tpm.A, tpm.stored, format, scaled, tpm.n)
       IN  tpm' = [tpm EXCEPT !.A = r.self, !.stored = r.stored, !.n = r.n,
                              !.calls = tpm.calls + 1,
                              !.out = [format |-> format, scaled |-> scaled,
                                       built |-> r.built, ret |-> r.ret, data |-> r.data,
                                       format0 |-> tpm.A.diags, stored0 |-> tpm.stored]]
    /\ UNCHANGED <<algVars, mv, sol>>

NextDiags == \E format \in DiagsFormats, scaled \in BOOLEAN : CallDiags(format, scaled)

SpecDiags == InitDiags /\ [][NextDiags]_vars

\* C25: diags(format) returns a matrix whose entry on every stored offset is
\* scale times the stored diagonal value and zero elsewhere, and a repeated
\* call with the same format on the unchanged matrix returns the stored
\* representation without building a new one.
C25_DiagsMemoized ==
    (tpm.state = "diags" /\ tpm.calls >= 1) =>
        /\ tpm.out.scaled =>
              \A x \in DOMAIN tpm.out.data :
                 tpm.out.data[x] =
                    IF (x[2] - x[1]) \in DOMAIN tpm.A.d
                    THEN RMul(tpm.A.scale, Entry(tpm.A, x[1], x[2]))
                    ELSE Zero
        /\ (tpm.calls >= 2 /\ tpm.out.format = tpm.out.format0) =>
              /\ ~tpm.out.built
              /\ tpm.stored = tpm.out.stored0

(***************************************************************************)
(* utilities.outer.  Arrays are sequences of integers indexed from 1, so   *)
(* c[k] of the source is c[k + 1] here; the assignments are applied in the *)
(* order of the source.                                                    *)
(***************************************************************************)
\* outer2D(a, b, c, symmetric)
outer2D(a, b, c, symmetric) ==
    LET c0 == [c  EXCEPT ![1] = a[1] * b[1]]
        c1 == [c0 EXCEPT ![2] = a[1] * b[2]]
        c2 == [c1 EXCEPT ![3] = IF symmetric THEN c1[2] ELSE a[2] * b[1]]
    IN  [c2 EXCEPT ![4] = a[2] * b[2]]

\* outer3D(a, b, c, symmetric)
outer3D(a, b, c, symmetric) ==
    LET c0 == [c  EXCEPT ![1] = a[1] * b[1]]
        c1 == [c0 EXCEPT ![2] = a[1] * b[2]]
        c2 == [c1 EXCEPT ![3] = a[1] * b[3]]
        c3 == [c2 EXCEPT ![4] = IF symmetric THEN c2[2] ELSE a[2] * b[1]]
        c6 == [c3 EXCEPT ![7] = IF symmetric THEN c3[3] ELSE a[3] * b[1]]
        c7 == [c6 EXCEPT ![8] = IF symmetric THEN c6[6] ELSE a[3] * b[2]]
        c4 == [c7 EXCEPT ![5] = a[2] * b[2]]
        c5 == [c4 EXCEPT ![6] = a[2] * b[3]]
    IN  [c5 EXCEPT ![9] = a[3] * b[3]]

\* outer(a, b, c); `same` tells that a and b are one object (a is b)
outer(a, b, same, c) ==
    IF Len(a) = 2 THEN outer2D(a, b, c, same)
    ELSE IF Len(a) = 3 THEN outer3D(a, b, c, same)
    ELSE c

OuterDims == {1, 2, 3}
OuterValues == {1, 2, 3}
OuterPrior == {0, 7}

InitOuter ==
    /\ \E n \in OuterDims :
       \E a \in [1..n -> OuterValues], same \in BOOLEAN, p \in OuterPrior :
       \E b \in (IF same THEN {a} ELSE [1..n -> OuterValues]) :
          tpm = [state |-> "outer", a |-> a, b |-> b, same |-> same,
                 c |-> [k \in 1..(n * n) |-> p], c0 |-> [k \in 1..(n * n) |-> p]]
    /\ mat = [r \in Regs |-> NoMat]
    /\ nextId = 3
    /\ nops = 0
    /\ last = NoCall
    /\ ref = [r \in Regs |-> Undef]
    /\ prov = NoProv
    /\ mv = mvIdle
    /\ sol = solIdle

\* c = outer(a, b, c)
Outer ==
    /\ tpm.state = "outer"
    /\ tpm' = [tpm EXCEPT !.state = "outer done",
                          !.c = outer(tpm.a, tpm.b, tpm.same, tpm.c)]
    /\ UNCHANGED <<algVars, mv, sol>>

NextOuter == Outer

SpecOuter == InitOuter /\ [][NextOuter]_vars

\* C26: for n = 2 and n = 3 leading components, outer(a, b, c) leaves
\* c[i*n + j] = a[i]*b[j] for all i, j in 0..n-1, also when a and b are the
\* same array, whatever c held before the call.
C26_OuterProduct ==
    (tpm.state = "outer done" /\ Len(tpm.a) \in {2, 3}) =>
        LET n == Len(tpm.a)
        IN  \A i \in 0..(n - 1), j \in 0..(n - 1) :
               tpm.c[i * n + j + 1] = tpm.a[i + 1] * tpm.b[j + 1]

(***************************************************************************)
(* utilities.CachedArrayDict.  `arrays` is the heap of numpy arrays, an    *)
(* array object is its index; `data` is self._data, a function from keys   *)
(* (shape, dtype, i) to array objects.                                     *)
(***************************************************************************)
MaxWorkOps == 4

\* __keytransform__ without the index i
keytransform_shape_dtype(key) == [newkey |-> <<key[1].shape, key[1].dtype, 0>>, fill |-> key[3]]

\* CachedArrayDict.__keytransform__(key)
keytransform(key) == [newkey |-> <<key[1].shape, key[1].dtype, key[2]>>, fill |-> key[3]]

\* np.zeros(shape, dtype)
NpZeros(shape, dtype) == [shape |-> shape, dtype |-> dtype, v |-> [k \in 1..shape[1] |-> 0]]

\* CachedArrayDict.__getitem__(key)
CachedArrayDict__getitem__(data, arrays, key) ==
    LET t       == keytransform(key)
        hit     == t.newkey \in DOMAIN data
        value   == IF hit THEN data[t.newkey] ELSE Len(arrays) + 1
        arrays1 == IF hit THEN arrays
                   ELSE Append(arrays, NpZeros(t.newkey[1], t.newkey[2]))
        data1   == IF hit THEN data ELSE (t.newkey :> value) @@ data
        arrays2 == IF t.fill
                   THEN [arrays1 EXCEPT ![value].v = [k \in DOMAIN @ |-> 0]]
                   ELSE arrays1
    IN  [data |-> data1, arrays |-> arrays2, value |-> value, created |-> ~hit]

\* CachedArrayDict.__setitem__(key, value)
CachedArrayDict__setitem__(data, key, value) ==
    (keytransform(key).newkey :> value) @@ data

\* CachedArrayDict.__delitem__(key); the key is present
CachedArrayDict__delitem__(data, key) ==
    [k \in (DOMAIN data) \ {keytransform(key).newkey} |-> data[k]]

WorkShapes == { <<1>>, <<2>> }
WorkDtypes == { "float", "int" }
WorkIndex == { 0, 1 }
WorkArrays == { [shape |-> sh, dtype |-> dt] : sh \in WorkShapes, dt \in WorkDtypes }

InitWork ==
    /\ tpm = [state |-> "work", data |-> << >>, arrays |-> << >>, n |-> 0,
              lookups |-> {}, onlyLookups |-> TRUE, out |-> NoOut]
    /\ mat = [r \in Regs |-> NoMat]
    /\ nextId = 3
    /\ nops = 0
    /\ last = NoCall
    /\ ref = [r \in Regs |-> Undef]
    /\ prov = NoProv
    /\ mv = mvIdle
    /\ sol = solIdle

WorkCall(data, arrays, lookups, only, out) ==
    /\ tpm.state = "work"
    /\ tpm.n < MaxWorkOps
    /\ tpm' = [tpm EXCEPT !.data = data, !.arrays = arrays, !.n = tpm.n + 1,
                          !.lookups = IF only THEN lookups ELSE {},
                          !.onlyLookups = only, !.out = out]
    /\ UNCHANGED <<algVars, mv, sol>>

\* w = work[(a, i, fill)]
Lookup(a, i, fill) ==
    LET r == CachedArrayDict__getitem__(tpm.data, tpm.arrays, <<a, i, fill>>)
    IN  WorkCall(r.data, r.arrays,
                 tpm.lookups \cup {<<a.shape, a.dtype, i, r.value>>},
                 tpm.onlyLookups,
                 [op |-> "lookup", a |-> a, i |-> i, fill |-> fill, w |-> r.value,
                  created |-> r.created, arrays0 |-> tpm.arrays])

\* w[...] = 1 by the holder of a work array w
WriteArray(w) ==
    /\ w \in 1..Len(tpm.arrays)
    /\ \E k \in DOMAIN tpm.arrays[w].v : tpm.arrays[w].v[k] = 0
    /\ WorkCall(tpm.data, [tpm.arrays EXCEPT ![w].v = [k \in DOMAIN @ |-> 1]],
                tpm.lookups, tpm.onlyLookups, [op |-> "write", w |-> w])

\* work[(a, i, fill)] = w for an existing array w
WorkSetItem(a, i, w) ==
    /\ w \in 1..Len(tpm.arrays)
    /\ WorkCall(CachedArrayDict__setitem__(tpm.data, <<a, i, FALSE>>, w), tpm.arrays,
                {}, FALSE, [op |-> "set", w |-> w])

\* del work[(a, i, fill)]
WorkDelItem(a, i) ==
    /\ <<a.shape, a.dtype, i>> \in DOMAIN tpm.data
    /\ WorkCall(CachedArrayDict__delitem__(tpm.data, <<a, i, FALSE>>), tpm.arrays,
                {}, FALSE, [op |-> "del"])

NextWork ==
    \/ \E a \in WorkArrays, i \in WorkIndex, fill \in BOOLEAN : Lookup(a, i, fill)
    \/ \E w \in 1..MaxWorkOps : WriteArray(w)
    \/ \E a \in WorkArrays, i \in WorkIndex, w \in 1..MaxWorkOps : WorkSetItem(a, i, w)
    \/ \E a \in WorkArrays, i \in WorkIndex : WorkDelItem(a, i)

SpecWork == InitWork /\ [][NextWork]_vars

\* C27: in a history of lookups work[(a, i, fill)] (and writes into the
\* arrays they returned), every lookup returns an array of a's shape and
\* dtype; two lookups return the same array exactly when their shape, dtype
\* and i are equal; the array is all zeros when it was created by the lookup
\* or fill is true, and otherwise holds what it held before the lookup.
C27_WorkArrays ==
    (tpm.state = "work" /\ tpm.onlyLookups /\ tpm.out.op = "lookup") =>
        LET w == tpm.out.w
            Z == [k \in 1..tpm.out.a.shape[1] |-> 0]
        IN  /\ w \in 1..Len(tpm.arrays)
            /\ tpm.arrays[w].shape = tpm.out.a.shape
            /\ tpm.arrays[w].dtype = tpm.out.a.dtype
            /\ \A x \in tpm.lookups, y \in tpm.lookups :
                  (x[4] = y[4]) <=> (<<x[1], x[2], x[3]>> = <<y[1], y[2], y[3]>>)
            /\ (tpm.out.created \/ tpm.out.fill) => tpm.arrays[w].v = Z
            /\ (~tpm.out.created /\ ~tpm.out.fill) =>
                  tpm.arrays[w].v = tpm.out.arrays0[w].v
            /\ \A u \in 1..Len(tpm.out.arrays0) :
                  u # w => tpm.arrays[u] = tpm.out.arrays0[u]

\* C27 witness: a second lookup of a key without fill returns the array of
\* the first lookup with the ones written into it in between, while a
\* lookup with another index has returned another array
C27_Witness ==
    /\ tpm.state = "work" /\ tpm.onlyLookups /\ tpm.out.op = "lookup"
    /\ ~tpm.out.created /\ ~tpm.out.fill
    /\ \E k \in DOMAIN tpm.arrays[tpm.out.w].v : tpm.arrays[tpm.out.w].v[k] = 1
    /\ Len(tpm.arrays) >= 2

(***************************************************************************)
(* TPMatrix.copy and the in-place operations.  `arrays` is the heap of     *)
(* scale arrays; the scale field of an object holds the index of its       *)
(* array, so that two objects can hold one array.                          *)
(***************************************************************************)
MaxCopyOps == 2

\* The TPMatrix value of an object: its scale field replaced by the array
TPValue(arrays, obj) == [obj EXCEPT !.scale = arrays[obj.scale]]

\* TPMatrix.__deepcopy__ / copy: the per-axis matrices are deep copies (of
\* number n), the scale argument is self.scale itself
TPMatrix_copy(self, n) ==
    TPMatrix([a \in 1..Len(self.mats) |-> copy(self.mats[a], n + a)], self.space,
             self.scale, self.global_index)

\* TPMatrix.simplify_diagonal_matrices on a TPMatrix value
simplify_diagonal_matrices(self) ==
    LET diagonal_axes == Axes(self.space) \ NonDiagonal(self.space)
    IN  IF self.issimplified \/ diagonal_axes = {} THEN self
        ELSE IF Len(self.mats) = 1
        THEN [self EXCEPT !.pmat = LinkPmat(self.mats, self.naxes), !.issimplified = TRUE]
        ELSE get_simplified_absorbing(self)

\* self *= a for a number a: self.scale *= a changes the array in place
TPMatrix__imul__number(arrays, obj, a) ==
    [arrays |-> [arrays EXCEPT ![obj.scale] = NdArray(@.shape, LAMBDA x : RMul(@.v[x], a))],
     obj |-> obj, err |-> "none"]

\* An in-place operation whose result is bound to a new scale array:
\* self.scale = <new array>
Rebound(arrays, obj, T, err) ==
    IF err # "none" THEN [arrays |-> arrays, obj |-> obj, err |-> err]
    ELSE [arrays |-> Append(arrays, T.scale),
          obj |-> [T EXCEPT !.scale = Len(arrays) + 1], err |-> "none"]

\* self *= a for an array a: self.scale = self.scale*a
TPMatrix__imul__array(arrays, obj, a) ==
    LET T == TPValue(arrays, obj)
    IN  Rebound(arrays, obj, [T EXCEPT !.scale = ArrMul(T.scale, a)], "none")

CopyNames == {"T", "C"}
CopyOps == {"imul number", "imul array", "iadd", "isub", "simplify"}

\* One in-place statement on object x with operand y
InPlace(op, arrays, objs, x, y) ==
    LET T == TPValue(arrays, objs[x])
        a == TPValue(arrays, objs[y])
    IN  CASE op = "imul number" -> TPMatrix__imul__number(arrays, objs[x], <<2, 1>>)
          [] op = "imul array" ->
               TPMatrix__imul__array(arrays, objs[x], NdArray(T.scale.shape, LAMBDA i : <<2, 1>>))
          [] op = "iadd" ->
               Rebound(arrays, objs[x], TPMatrix__iadd__(T, a).self, TPMatrix__iadd__(T, a).err)
          [] op = "isub" ->
               Rebound(arrays, objs[x], TPMatrix__isub__(T, a).self, TPMatrix__isub__(T, a).err)
          [] op = "simplify" ->
               IF simplify_diagonal_matrices(T) = T
               THEN [arrays |-> arrays, obj |-> objs[x], err |-> "none"]
               ELSE Rebound(arrays, objs[x], simplify_diagonal_matrices(T), "none")

CopySpaces ==
    { Space(<<TpDim>>, << >>, <<TpDim>>, 1, 1),
      Space(<<TpDim>>, <<1>>, <<TpDim>>, 1, 1),
      Space(<<TpDim, TpDim>>, <<1>>, <<TpDim, TpDim>>, 1, 1) }

InitCopy ==
    /\ \E space \in CopySpaces :
       \E mats \in MatLists(space), scale \in TpScales(space) :
          tpm = [state |-> "copy", arrays |-> <<scale>>,
                 objs |-> [x \in {"T"} |-> TPMatrix(mats, space, 1, <<0, 0>>)],
                 n |-> 0, out |-> NoOut]
    /\ mat = [r \in Regs |-> NoMat]
    /\ nextId = 3
    /\ nops = 0
    /\ last = NoCall
    /\ ref = [r \in Regs |-> Undef]
    /\ prov = NoProv
    /\ mv = mvIdle
    /\ sol = solIdle

\* C = T.copy()
MakeCopy ==
    /\ tpm.state = "copy"
    /\ DOMAIN tpm.objs = {"T"}
    /\ tpm' = [tpm EXCEPT !.objs = [x \in CopyNames |->
                                       IF x = "T" THEN tpm.objs["T"]
                                       ELSE TPMatrix_copy(tpm.objs["T"], 4)],
                          !.out = [op |-> "copy"]]
    /\ UNCHANGED <<algVars, mv, sol>>

\* x *= 2, x *= array, x += y, x -= y, x.simplify_diagonal_matrices()
CopyInPlace(op, x, y) ==
    /\ tpm.state = "copy"
    /\ DOMAIN tpm.objs = CopyNames
    /\ tpm.n < MaxCopyOps
    /\ LET r == InPlace(op, tpm.arrays, tpm.objs, x, y)
       IN  tpm' = [tpm EXCEPT !.arrays = r.arrays, !.objs[x] = r.obj, !.n = @ + 1,
                              !.out = [op |-> op, x |-> x, y |-> y, err |-> r.err,
                                       before |-> [z \in CopyNames |->
                                                     TPValue(tpm.arrays, tpm.objs[z])]]]
    /\ UNCHANGED <<algVars, mv, sol>>

NextCopy ==
    \/ MakeCopy
    \/ \E op \in CopyOps, x \in CopyNames, y \in CopyNames : CopyInPlace(op, x, y)

SpecCopy == InitCopy /\ [][NextCopy]_vars

\* C29: after C = T.copy(), an in-place operation on one of the two (*= by
\* a number or an array, +=, -=, simplify_diagonal_matrices) leaves the
\* scale array and the per-axis matrices of the other as they were.
C29_CopyIndependent ==
    (tpm.state = "copy" /\ tpm.out.op \in CopyOps) =>
        \A z \in CopyNames \ {tpm.out.x} :
           TPValue(tpm.arrays, tpm.objs[z]) = tpm.out.before[z]

====
